---- MODULE Spec2Model ----
(***************************************************************************)
(* Meeting lifecycle and transcript relay of boom-prototype's backend.     *)
(*                                                                         *)
(* Three subsystems share this module, each with its own next-state        *)
(* relation over its own variables:                                        *)
(*   SpecSched  scheduled meetings: schedule / start / cancel / join-info  *)
(*   SpecHub    the transcript relay hub: transcriptWS under transcriptLock*)
(*   SpecMeet   the meetings table: get-or-create of a meeting row         *)
(***************************************************************************)
EXTENDS Integers, Sequences, FiniteSets, TLC

(***************************************************************************)
(* Bounds and program constants                                            *)
(***************************************************************************)
\* rows the scheduled_meetings table may hold
MaxScheduled == 2
\* start requests that may be in flight at once
NumStartTasks == 2
\* WebSocket connections that may be opened on /ws/transcription/:room
MaxConns == 2
\* requests POST /api/meetings/:room/start-transcription that may be in flight
\* at once
NumMeetTasks == 2
\* rows the meeting_notes table may hold
MaxNotes == 2
\* tokens POST /api/token may issue
MaxTokens == 2
\* characters in the text of an ingested transcript event
MaxTextLen == 2
\* WebSockets the transcript-stream component constructs in one run: the first,
\* the retries of two chains of reconnection and one more
MaxSockets == 8
\* egresses the Room Service may start, that is rows of recordings
MaxRecordings == 2

\* ids of the host accounts taking part (users.id); 0 is no user
Users == {1, 2}
StartTasks == 1..NumStartTasks
\* names generateRoomName may draw (verb-noun pairs)
RoomNames == {"flying-falcon", "jumping-tiger"}
\* ids a request may name: every row the table can hold, and one it cannot
SchedIds == 1..(MaxScheduled + 1)
MeetTasks == 1..NumMeetTasks
\* connections of the pool database/sql keeps to ./boom.db: two, so that a
\* statement may run on a connection other than the one used before
DbConns == {1, 2}
\* saveNotes / subscribe-email requests that may be in flight at once: two
StoreTasks == {1, 2}
\* the room the notes and subscription requests are about
StoreRooms == {"flying-falcon"}
\* ids email_subscriptions hands out (AUTOINCREMENT)
SubIds == {1, 2}
\* the seconds the wall clock shows (CURRENT_TIMESTAMP counts seconds)
Seconds == {0, 1}
\* what a saveNotes request carries (markdown, model, token counts), taken as
\* one value: the row stores and returns each of them as handed in
Bodies == {"notes-v1", "notes-v2"}
Emails == {"ann@example.com"}
Names == {"Ann", "Ann B."}
\* values rand.Intn(100000) returns: three of the 100000
Suffixes == {0, 1, 99999}
\* no token was issued by the request
NoIdentity == <<"", 0>>

\* the clients that log in; each holds the credential its login returned
Clients == {"browser"}
\* the instants of the host credentials' clock; a credential lives CredTTL of
\* them (24 hours)
AuthTimes == {0, 1, 2}
CredTTL == 1
\* jwtSecret, and a key that is not it
jwtSecret == "JWT_SECRET"
OtherKey == "not-the-secret"
\* the password all seeded users share, and one that is not it
AdminPassword == "boom2026"
Passwords == {AdminPassword, "letmein"}
\* the users table after seedUsers: id = index
users ==
  <<[email |-> "justin@nevinstech.com", name |-> "Justin",
     password_hash |-> <<"bcrypt", AdminPassword>>],
    [email |-> "burt@nevinstech.com", name |-> "Burt",
     password_hash |-> <<"bcrypt", AdminPassword>>]>>
LoginEmails == {users[u].email : u \in Users} \cup {"nobody@example.com"}
\* the host-only routes
HostOps == {"me", "createRoom", "schedule", "list", "cancel", "start"}
\* the characters of a transcript event's fields: a letter, the double quote
\* and the backslash
Quote == "\""
Backslash == "\\"
Chars == {"a", Quote, Backslash}
StringsUpTo(n) == UNION {[1..k -> Chars] : k \in 0..n}
NoWire == [code |-> 0, msg |-> <<>>, bytes |-> <<>>, published |-> FALSE]
\* what os.Getenv("N8N_EMAIL_WEBHOOK_URL") may answer
WebhookURLs == {"", "http://n8n:5678/webhook/meeting-email"}
\* pollForNotes: const maxAttempts = 60
maxAttempts == 60
\* the handlers of the recording routes that may run at once
RecTasks == {1, 2}
IdleRec == [pc |-> "idle", op |-> "", room |-> "", mid |-> 0, egress |-> 0]
NoRecResp == [op |-> "none", room |-> "", code |-> 0, status |-> "",
              egress |-> 0, known |-> FALSE]
NoAuthResp ==
  [op |-> "none", code |-> 0, body |-> "", ran |-> FALSE, sigOk |-> FALSE,
   expired |-> FALSE, issuedFor |-> 0, id |-> 0, email |-> "", name |-> "",
   token |-> <<>>, reqEmail |-> "", reqPassword |-> ""]

\* The relay hub's tasks: one handleTranscriptionWS per connection (the task's
\* id is the connection's), and the handlers of the ingestion endpoint.
Conns == 1..MaxConns
\* two handlers of POST /api/internal/transcript; the Agent, which waits for
\* each answer, keeps at most one of them busy
Ingest == {-1, -2}
\* ids of the events published in one run (ingested fragments and messages
\* subscribers send): two, so that one event can follow another
EventIds == {1, 2}
Tasks == Conns \cup Ingest
\* no task: the value of transcriptLock's writer when nobody holds it
NoTask == 0
\* the source recorded for an event the Transcription Agent sent in; the
\* source of a message a subscriber sent is its connection
Agent == 0
NoPublish == [id |-> 0, code |-> 0, subs |-> {}]

NoResp == [op |-> "none", user |-> 0, id |-> 0, code |-> 0, status |-> "",
           started |-> FALSE, cancelled |-> FALSE, calls |-> 0]
IdleStart == [pc |-> "idle", user |-> 0, id |-> 0, room |-> "", calls |-> 0]
\* no start-transcription was answered 200 for the room before
NoPrev == -1
IdleMeet == [pc |-> "idle", room |-> "", id |-> 0, prev |-> NoPrev, calls |-> 0]
NoMeetResp == [room |-> "", id |-> 0, code |-> 0, prev |-> NoPrev,
               calls |-> 0, agent |-> ""]
NoEndResp == [room |-> "", code |-> 0, status |-> "", agent |-> "",
              hadSession |-> FALSE, calls |-> 0]
IdleStore == [pc |-> "idle", op |-> "", room |-> "", email |-> "", name |-> "",
              body |-> "", mid |-> 0]
NoStoreResp == [op |-> "none", room |-> "", code |-> 0, body |-> "",
                email |-> "", name |-> "", latest |-> "", hasRows |-> FALSE,
                count |-> 0]

VARIABLES
  \* ---- scheduled meetings ----
  scheduled_meetings, \* table: Seq of [room_name, host_user_id, status]; id = index
  lkRooms,            \* Room Service: set of [name, by] rooms allocated by CreateRoom
  startTask,          \* in-flight startScheduledMeetingHandler invocations
  resp,               \* the response sent by the last completed handler step
  startOk,            \* ids for which a start has returned 200
  cancelOk,           \* ids for which a cancel has returned 200
  \* ---- transcript relay hub ----
  transcriptWS,       \* room -> set of connections; a room absent has no inner map
  lockW,              \* transcriptLock: the task holding it exclusively, or NoTask
  lockR,              \* transcriptLock: the tasks holding it shared
  pc,                 \* position of every task of the hub
  wsRoom,             \* the room parameter of each connection's handler
  events,             \* every event published so far: Seq of [room, src]; id = index
  cur,                \* the event a task is broadcasting (0: none)
  todo,               \* connections the task's range loop has still to visit
  snapshot,           \* the room's subscribers when the task took the read lock
  wlog,               \* per connection: the WriteMessage calls made on it and
                      \* whether each went through, [id, ok]
  before,             \* per connection: ids whose publish had returned when it registered
  busy,               \* the Agent is waiting for the answer to its last request
  hubResp,            \* the ingestion request answered last: the event's id, the
                      \* status code, the subscribers the broadcast ranged over
  \* ---- meetings table ----
  meetings,           \* table: Seq of room_name (UNIQUE); id = index
  lastInsertRowid,    \* per database connection: rowid of its last successful INSERT
  meetTask,           \* in-flight startTranscriptionHandler invocations
  meetResp,           \* the answer of the last startTranscriptionHandler: [room, id,
                      \* code], and the id answered 200 for the room last before
                      \* the request came in (prev)
  sessions,           \* Transcription Agent: per room, the sessions it runs
  lastStart,          \* per room: the id of the start-transcription answered 200 last
  endResp,            \* the answer of the last endTranscriptionHandler
  \* ---- notes and e-mail subscriptions ----
  meeting_notes,      \* table: Seq of [meeting_id, body, generated_at]; id = index
  email_subscriptions,\* table: set of rows [meeting_id, email, participant_name]
  subSeq,             \* email_subscriptions: the last AUTOINCREMENT id handed out
  now,                \* the wall clock, in seconds
  storeTask,          \* in-flight saveNotesHandler / subscribeEmailHandler invocations
  emailJobs,          \* TriggerEmailWorkflow goroutines not yet finished
  webhookCalls,       \* the POSTs sent to the webhook, in order
  lastSaved,          \* per room: the body of the saveNotes answered 200 last ("" none)
  emailOutcome,       \* how the TriggerEmailWorkflow that finished last ended ("" none)
  storeResp,          \* the answer of the last notes / subscription handler
  \* ---- participant tokens ----
  issued,             \* the tokens issued so far: Seq of [name, room, identity]
  tokenResp,          \* the last getToken: its answer and what was asked
  \* ---- host authentication ----
  authNow,            \* time.Now() of the credential checks
  jwts,               \* the credentials login has issued: set of [token, user]
  authResp,           \* the answer of login, me or authRequired given last
  \* ---- recordings ----
  recordings,         \* table: Seq of [meeting_id, egress_id, status, created_at]
  egressSeq,          \* Room Service: the last egress id handed out
  recTask,            \* in-flight startRecordingHandler / stopRecordingHandler
  recJobs,            \* egress ids whose batch-transcription goroutine is running
  recResp,            \* the answer of the last recording handler
  \* ---- notes poller of the meeting page ----
  pollPc,             \* "off", "ending", "polling", "waiting" or "done"
  attempts,           \* let attempts of pollForNotes
  fetches,            \* notes requests sent by the poller
  pollDelay,          \* delay of the last setTimeout(poll, ...), in ms
  transcriptionStatus,
  processingStage,
  \* ---- the bytes of the ingestion endpoint ----
  wire,               \* the last POST /api/internal/transcript: the event
                      \* parsed, the answer, the message handed to broadcastToRoom
  \* ---- WriteMessage calls that have not returned ----
  writing,            \* task -> the connection it is writing to, 0 for none
  stalled,            \* connections whose peer has stopped reading
  \* ---- the notes the meeting page shows ----
  notes,              \* the markdown of setNotes
  shownRow,           \* the meeting_notes row it came from, 0 for none
  endedAt,            \* rows of meeting_notes when end-transcription was sent
  \* ---- the transcript-stream component of the meeting page ----
  mounted,            \* the component is mounted
  roomNameProp,       \* its roomName prop
  sockets,            \* the WebSockets not yet closed: set of [id, room, state]
  created,            \* WebSockets constructed so far
  wsRef,              \* wsRef.current: id of a socket, 0 for null
  retryCount,         \* retryCountRef.current
  reconnectTimeout,   \* reconnectTimeoutRef.current: id of a timer, 0 for null
  timers,             \* pending setTimeout callbacks: set of [id, room, delay]
  connected,
  reconnecting,
  reconEv,            \* the last step of the component: what ran and what it did
  \* ---- the auth context of the front end ----
  authUser,           \* user of AuthProvider: a user id, 0 for null
  authToken,          \* token of AuthProvider: <<"jwt", user>>, NoJwt for null
  boom_token,         \* localStorage item boom_token
  loading,
  checkPc,            \* the startup checkAuth: "none", "inflight" or "done"
                      \* ("unmounted" before the first render)
  checkToken,         \* its argument t
  loginsInFlight,     \* users whose login request has not been answered
  loggedOut,          \* logout was called and no login since
  \* ---- the join page ----
  joinMeeting,        \* meeting of Join: its status, "null" for null
  joinName,           \* name of Join
  joinLoading,
  joinError,
  interval,           \* period of the setInterval that is set, 0 for none
  answers,            \* join-info answers on their way to the page
  entered,            \* the status shown when joinRoom navigated, "" before
  applied,            \* the answer the page handled last
  \* ---- the virtual-background hook ----
  videoTrack,         \* the local video track is there
  trackProcessor,     \* the processor set on the track: an option id, "none"
  currentBackground,  \* option id
  currentProcessor,   \* option id of the processor held in state, "null"
  isApplying,
  vbError,            \* error of the hook, "" for null
  savedBackground,    \* localStorage item boom-virtual-background, "" if absent
  applyPc,            \* the applyBackground call: "idle", "stopping", "setting"
                      \* ("unmounted" before the first render)
  applyOption,        \* its argument
  lateSet,            \* option of a setProcessor that outlived its timeout
  completed           \* how the last applyBackground call ended: "success",
                      \* "failure", "timeout", "noTrack" (line 50), "" before

schedVars == <<scheduled_meetings, lkRooms, startTask, resp, startOk, cancelOk>>

hubVars == <<transcriptWS, lockW, lockR, pc, wsRoom, events, cur, todo,
             snapshot, wlog, before, busy, hubResp>>

meetVars == <<meetings, lastInsertRowid, meetTask, meetResp, sessions,
              lastStart, endResp>>

storeVars == <<meeting_notes, email_subscriptions, subSeq, now, storeTask,
               emailJobs, lastSaved, emailOutcome, webhookCalls, storeResp>>

tokenVars == <<issued, tokenResp>>

authVars == <<authNow, jwts, authResp>>

recVars == <<recordings, egressSeq, recTask, recJobs, recResp>>

pollVars == <<pollPc, attempts, fetches, pollDelay, transcriptionStatus,
              processingStage>>

resultVars == <<notes, shownRow, endedAt>>

reconVars == <<mounted, roomNameProp, sockets, created, wsRef, retryCount, reconnectTimeout, timers, connected, reconnecting, reconEv>>

ctxVars == <<authUser, authToken, boom_token, loading, checkPc, checkToken, loginsInFlight, loggedOut>>

joinVars == <<joinMeeting, joinName, joinLoading, joinError, interval, answers, entered, applied>>

vbVars == <<videoTrack, trackProcessor, currentBackground, currentProcessor, isApplying, vbError, savedBackground, applyPc, applyOption, lateSet, completed>>

vars == <<scheduled_meetings, lkRooms, startTask, resp, startOk, cancelOk,
          transcriptWS, lockW, lockR, pc, wsRoom, events, cur, todo,
          snapshot, wlog, before, busy, hubResp,
          meetings, lastInsertRowid, meetTask, meetResp, sessions, lastStart,
          endResp,
          meeting_notes, email_subscriptions, subSeq, now, storeTask,
          emailJobs, lastSaved, emailOutcome, webhookCalls, storeResp,
          issued, tokenResp, authNow, jwts, authResp,
          recordings, egressSeq, recTask, recJobs, recResp,
          pollPc, attempts, fetches, pollDelay, transcriptionStatus,
          processingStage, wire, writing, stalled,
          notes, shownRow, endedAt,
          mounted, roomNameProp, sockets, created, wsRef, retryCount, reconnectTimeout, timers, connected, reconnecting, reconEv,
          authUser, authToken, boom_token, loading, checkPc, checkToken, loginsInFlight, loggedOut,
          joinMeeting, joinName, joinLoading, joinError, interval, answers, entered, applied,
          videoTrack, trackProcessor, currentBackground, currentProcessor, isApplying, vbError, savedBackground, applyPc, applyOption, lateSet, completed>>

\* what the steps of one subsystem leave alone
exceptSched == <<hubVars, meetVars, storeVars, tokenVars, authVars, recVars, pollVars, wire, writing, stalled, resultVars, reconVars, ctxVars, joinVars, vbVars>>
exceptHub == <<schedVars, meetVars, storeVars, tokenVars, authVars, recVars, pollVars, wire, writing, stalled, resultVars, reconVars, ctxVars, joinVars, vbVars>>
exceptMeet == <<schedVars, hubVars, storeVars, tokenVars, authVars, recVars, pollVars, wire, writing, stalled, resultVars, reconVars, ctxVars, joinVars, vbVars>>
exceptStore == <<schedVars, hubVars, meetTask, meetResp, sessions, lastStart,
                 endResp, tokenVars, authVars, pollVars, wire, writing, stalled, resultVars, reconVars, ctxVars, joinVars, vbVars>>
exceptToken == <<schedVars, hubVars, meetVars, storeVars, authVars, recVars, pollVars, wire, writing, stalled, resultVars, reconVars, ctxVars, joinVars, vbVars>>
exceptAuth == <<hubVars, meetVars, storeVars, tokenVars, recVars, pollVars,
                wire, writing, stalled, resultVars, reconVars, ctxVars, joinVars, vbVars>>
exceptRec == <<schedVars, hubVars, meetTask, meetResp, sessions, lastStart,
               endResp, meeting_notes, email_subscriptions, subSeq, storeTask,
               emailJobs, lastSaved, emailOutcome, webhookCalls, storeResp, tokenVars,
               authVars, pollVars, wire, writing, stalled, resultVars, reconVars, ctxVars, joinVars, vbVars>>
exceptPoll == <<schedVars, hubVars, meetVars, storeVars, tokenVars, authVars,
                recVars, wire, writing, stalled, resultVars, reconVars, ctxVars, joinVars, vbVars>>
exceptWire == <<schedVars, hubVars, meetVars, storeVars, tokenVars, authVars,
                recVars, pollVars, writing, stalled, resultVars, reconVars, ctxVars, joinVars, vbVars>>
\* all but the relay hub and the writes in progress
exceptWrite == <<schedVars, meetVars, storeVars, tokenVars, authVars, recVars,
                 pollVars, wire, stalled, resultVars, reconVars, ctxVars, joinVars, vbVars>>
\* all but the scheduled meetings and the join page
exceptJoin == <<hubVars, meetVars, storeVars, tokenVars, authVars, recVars,
                pollVars, wire, writing, stalled, resultVars, reconVars, ctxVars, vbVars>>
\* all but the virtual-background hook
exceptVb == <<schedVars, hubVars, meetVars, storeVars, tokenVars, authVars,
              recVars, pollVars, wire, writing, stalled, resultVars, reconVars,
              ctxVars, joinVars>>
\* all but the auth context
exceptCtx == <<schedVars, hubVars, meetVars, storeVars, tokenVars, authVars,
               recVars, pollVars, wire, writing, stalled, resultVars, reconVars, joinVars, vbVars>>
\* all but the transcript-stream component
exceptRecon == <<schedVars, hubVars, meetVars, storeVars, tokenVars, authVars,
                 recVars, pollVars, wire, writing, stalled, resultVars, ctxVars, joinVars, vbVars>>
\* all but the notes store, the poller and the notes shown
exceptResult == <<schedVars, hubVars, meetTask, meetResp, sessions, lastStart,
                  endResp, tokenVars, authVars, recVars, wire, writing, stalled, reconVars, ctxVars, joinVars, vbVars>>
\* all but the relay hub, the writes in progress and the peers that stalled
exceptStall == <<schedVars, meetVars, storeVars, tokenVars, authVars, recVars,
                 pollVars, wire, resultVars, reconVars, ctxVars, joinVars, vbVars>>

(***************************************************************************)
(* Scheduled meetings: storage layer                                       *)
(***************************************************************************)
RowIds == DOMAIN scheduled_meetings

\* CreateScheduledMeeting: INSERT of a row in status 'scheduled'; the room name
\* is unique, so a name already present makes the insert fail.
CreateScheduledMeetingOk(roomName) ==
  /\ Len(scheduled_meetings) < MaxScheduled
  /\ \A i \in RowIds : scheduled_meetings[i].room_name # roomName

CreateScheduledMeeting(roomName, hostUserID) ==
  Append(scheduled_meetings,
         [room_name |-> roomName, host_user_id |-> hostUserID, status |-> "scheduled"])

\* CancelScheduledMeeting(id, hostUserID): succeeds only on the caller's own
\* row while it is still 'scheduled'; otherwise an error and no change.
CancelScheduledMeetingOk(id, hostUserID) ==
  /\ id \in RowIds
  /\ scheduled_meetings[id].host_user_id = hostUserID
  /\ scheduled_meetings[id].status = "scheduled"

\* UpdateScheduledMeetingStatus(id, status): UPDATE ... SET status WHERE id
UpdateScheduledMeetingStatus(id, status) ==
  IF id \in RowIds
    THEN [scheduled_meetings EXCEPT ![id].status = status]
    ELSE scheduled_meetings

\* GetScheduledMeetingByRoom: the row of that room name, 0 when there is none
GetScheduledMeetingByRoom(roomName) ==
  IF \E i \in RowIds : scheduled_meetings[i].room_name = roomName
    THEN CHOOSE i \in RowIds : scheduled_meetings[i].room_name = roomName
    ELSE 0

\* SELECT room_name, host_user_id ... WHERE id = ? AND status = 'scheduled'
SelectScheduled(id) ==
  id \in RowIds /\ scheduled_meetings[id].status = "scheduled"

\* the status column of row id, "" when there is no such row
StatusOf(id) ==
  IF id \in RowIds THEN scheduled_meetings[id].status ELSE ""

\* A response as the claims need it: the operation, the authenticated caller,
\* the id named, the HTTP status code, the status column of the row when the
\* handler answered (before any change the handler itself made), and whether a
\* start / a cancel of that id had returned 200 before this request.
Reply(op, user, id, code) ==
  [op |-> op, user |-> user, id |-> id, code |-> code, status |-> StatusOf(id),
   started |-> id \in startOk, cancelled |-> id \in cancelOk, calls |-> 0]

(***************************************************************************)
(* Scheduled meetings: handlers                                            *)
(***************************************************************************)
\* POST /api/scheduled-meetings
createScheduledMeetingHandler(user, roomName, req) ==
  /\ IF req # "ok"
       THEN /\ resp' = Reply("schedule", user, 0, 400)
            /\ UNCHANGED scheduled_meetings
       ELSE IF CreateScheduledMeetingOk(roomName)
         THEN /\ scheduled_meetings' = CreateScheduledMeeting(roomName, user)
              /\ resp' = Reply("schedule", user, Len(scheduled_meetings) + 1, 200)
         ELSE /\ resp' = Reply("schedule", user, 0, 500)
              /\ UNCHANGED scheduled_meetings
  /\ UNCHANGED <<lkRooms, startTask, startOk, cancelOk>>

\* Mutant of cancelScheduledMeetingHandler: the error CancelScheduledMeeting
\* returns is dropped and the handler answers 200 whatever happened.
cancelIgnoringError(user, id) ==
  /\ IF CancelScheduledMeetingOk(id, user)
       THEN /\ scheduled_meetings' = [scheduled_meetings EXCEPT ![id].status = "cancelled"]
            /\ cancelOk' = cancelOk \cup {id}
       ELSE UNCHANGED <<scheduled_meetings, cancelOk>>
  /\ resp' = Reply("cancel", user, id, 200)
  /\ UNCHANGED <<lkRooms, startTask, startOk>>

\* DELETE /api/scheduled-meetings/:id
cancelScheduledMeetingHandler(user, id) ==
  /\ IF CancelScheduledMeetingOk(id, user)
       THEN /\ scheduled_meetings' = [scheduled_meetings EXCEPT ![id].status = "cancelled"]
            /\ cancelOk' = cancelOk \cup {id}
            /\ resp' = Reply("cancel", user, id, 200)
       ELSE /\ resp' = Reply("cancel", user, id, 404)
            /\ UNCHANGED <<scheduled_meetings, cancelOk>>
  /\ UNCHANGED <<lkRooms, startTask, startOk>>

\* Mutant of StartCheck: the comparison of host_user_id with the caller is left
\* out, so any authenticated host passes.
StartCheckNoOwner(t, user, id) ==
  /\ startTask[t].pc = "idle"
  /\ IF ~SelectScheduled(id)
       THEN /\ resp' = Reply("start", user, id, 404)
            /\ UNCHANGED startTask
       ELSE /\ startTask' = [startTask EXCEPT ![t] =
                 [pc |-> "createRoom", user |-> user, id |-> id,
                  room |-> scheduled_meetings[id].room_name, calls |-> 0]]
            /\ UNCHANGED resp
  /\ UNCHANGED <<scheduled_meetings, lkRooms, startOk, cancelOk>>

\* POST /api/scheduled-meetings/:id/start, first part: the SELECT and the
\* ownership check
StartCheck(t, user, id) ==
  /\ startTask[t].pc = "idle"
  /\ IF ~SelectScheduled(id)
       THEN /\ resp' = Reply("start", user, id, 404)
            /\ UNCHANGED startTask
       ELSE IF scheduled_meetings[id].host_user_id # user
         THEN /\ resp' = Reply("start", user, id, 403)
              /\ UNCHANGED startTask
         ELSE /\ startTask' = [startTask EXCEPT ![t] =
                   [pc |-> "createRoom", user |-> user, id |-> id,
                    room |-> scheduled_meetings[id].room_name, calls |-> 0]]
              /\ UNCHANGED resp
  /\ UNCHANGED <<scheduled_meetings, lkRooms, startOk, cancelOk>>

\* Mutant of StartCreateRoom: a failed CreateRoom is tried once more.
StartCreateRoomRetrying(t, ok) ==
  /\ startTask[t].pc = "createRoom"
  /\ IF ok
       THEN /\ lkRooms' = lkRooms \cup {[name |-> startTask[t].room, by |-> startTask[t].user]}
            /\ startTask' = [startTask EXCEPT ![t].pc = "update",
                                              ![t].calls = @ + 1]
            /\ UNCHANGED resp
       ELSE IF startTask[t].calls = 0
         THEN /\ startTask' = [startTask EXCEPT ![t].calls = @ + 1]
              /\ UNCHANGED <<resp, lkRooms>>
         ELSE /\ resp' = [Reply("start", startTask[t].user, startTask[t].id, 500)
                            EXCEPT !.calls = startTask[t].calls + 1]
              /\ startTask' = [startTask EXCEPT ![t] = IdleStart]
              /\ UNCHANGED lkRooms
  /\ UNCHANGED <<scheduled_meetings, startOk, cancelOk>>

\* second part: roomClient.CreateRoom, called once, which allocates the room
\* or fails (an error of the transport and a status outside 2xx both come
\* back as err); calls counts the requests sent to the Room Service
StartCreateRoom(t, ok) ==
  /\ startTask[t].pc = "createRoom"
  /\ IF ok
       THEN /\ lkRooms' = lkRooms \cup {[name |-> startTask[t].room, by |-> startTask[t].user]}
            /\ startTask' = [startTask EXCEPT ![t].pc = "update",
                                              ![t].calls = @ + 1]
            /\ UNCHANGED resp
       ELSE /\ resp' = [Reply("start", startTask[t].user, startTask[t].id, 500)
                          EXCEPT !.calls = startTask[t].calls + 1]
            /\ startTask' = [startTask EXCEPT ![t] = IdleStart]
            /\ UNCHANGED lkRooms
  /\ UNCHANGED <<scheduled_meetings, startOk, cancelOk>>

\* Mutant of StartUpdate: the handler answers 200 without the call of
\* UpdateScheduledMeetingStatus.
StartUpdateSkipped(t) ==
  /\ startTask[t].pc = "update"
  /\ startOk' = startOk \cup {startTask[t].id}
  /\ resp' = [Reply("start", startTask[t].user, startTask[t].id, 200)
                EXCEPT !.calls = startTask[t].calls]
  /\ startTask' = [startTask EXCEPT ![t] = IdleStart]
  /\ UNCHANGED <<scheduled_meetings, lkRooms, cancelOk>>

\* last part: UpdateScheduledMeetingStatus(id, "active") and the 200 response
StartUpdate(t) ==
  /\ startTask[t].pc = "update"
  /\ scheduled_meetings' = UpdateScheduledMeetingStatus(startTask[t].id, "active")
  /\ startOk' = startOk \cup {startTask[t].id}
  /\ resp' = [Reply("start", startTask[t].user, startTask[t].id, 200)
                EXCEPT !.calls = startTask[t].calls]
  /\ startTask' = [startTask EXCEPT ![t] = IdleStart]
  /\ UNCHANGED <<lkRooms, cancelOk>>

\* GET /api/join/:room
getJoinInfoHandler(roomName) ==
  /\ LET id == GetScheduledMeetingByRoom(roomName) IN
       IF id = 0
         THEN resp' = Reply("join", 0, 0, 404)
         ELSE resp' = Reply("join", 0, id, 200)
  /\ UNCHANGED <<scheduled_meetings, lkRooms, startTask, startOk, cancelOk>>

InitSched ==
  /\ scheduled_meetings = <<>>
  /\ lkRooms = {}
  /\ startTask = [t \in StartTasks |-> IdleStart]
  /\ resp = NoResp
  /\ startOk = {}
  /\ cancelOk = {}

NextSched ==
  \/ \E u \in Users, r \in RoomNames, req \in {"ok", "badBody", "badDate"} :
       createScheduledMeetingHandler(u, r, req) /\ UNCHANGED exceptSched
  \/ \E u \in Users, id \in SchedIds :
       cancelScheduledMeetingHandler(u, id) /\ UNCHANGED exceptSched
  \/ \E t \in StartTasks, u \in Users, id \in SchedIds :
       StartCheck(t, u, id) /\ UNCHANGED exceptSched
  \/ \E t \in StartTasks, ok \in BOOLEAN : StartCreateRoom(t, ok) /\ UNCHANGED exceptSched
  \/ \E t \in StartTasks : StartUpdate(t) /\ UNCHANGED exceptSched
  \/ \E r \in RoomNames : getJoinInfoHandler(r) /\ UNCHANGED exceptSched

(***************************************************************************)
(* Scheduled meetings: properties                                          *)
(***************************************************************************)
HostOf(id) == scheduled_meetings[id].host_user_id

\* C1: the status of a scheduled meeting only moves scheduled -> active or
\* scheduled -> cancelled; a row that is active or cancelled never changes
\* again, whatever the interleaving of start and cancel requests.
C1_StatusMonotonic ==
  [][\A id \in RowIds :
       /\ scheduled_meetings'[id].status # scheduled_meetings[id].status
            => scheduled_meetings'[id].status \in {"active", "cancelled"}
       /\ scheduled_meetings[id].status \in {"active", "cancelled"}
            => scheduled_meetings'[id].status = scheduled_meetings[id].status]_vars

\* a step that changes the status of a row is the step of a request of the
\* row's owner
OnlyOwnerChangesStatus ==
  \A id \in RowIds :
    scheduled_meetings'[id].status # scheduled_meetings[id].status
      => /\ resp'.op \in {"start", "cancel"}
         /\ resp'.id = id
         /\ resp'.user = HostOf(id)

\* every room the Room Service allocated for a scheduled meeting was asked for
\* by that meeting's owner
OnlyOwnerAllocates ==
  \A r \in lkRooms :
    \E id \in RowIds : /\ scheduled_meetings[id].room_name = r.name
                       /\ HostOf(id) = r.by

NonOwnerStart ==
  resp.op = "start" /\ resp.id \in RowIds /\ resp.user # HostOf(resp.id)

\* C8 as stated: no request of a host other than the owner changes the status
\* or causes a room allocation, and a start by a non-owner is answered 403.
C8_NonOwnerStartIs403 ==
  /\ OnlyOwnerAllocates
  /\ NonOwnerStart => resp.code = 403

\* C8 as amended: no request of a host other than the owner changes the status
\* or causes a room allocation; a start by a non-owner is answered 403 while
\* the meeting is scheduled and 404 once it is active or cancelled.
C8_NonOwnerNeverActs ==
  /\ [][OnlyOwnerChangesStatus]_vars
  /\ [](OnlyOwnerAllocates
        /\ (NonOwnerStart =>
              resp.code = (IF resp.status = "scheduled" THEN 403 ELSE 404)))

C8_Witness ==
  NonOwnerStart /\ resp.code = 403 /\ StatusOf(resp.id) = "scheduled"

Subs(room) ==
  IF room \in DOMAIN transcriptWS THEN transcriptWS[room] ELSE {}

\* if transcriptWS[room] == nil { make } ; transcriptWS[room][c] = true
Register(ws, room, c) ==
  [r \in DOMAIN ws \cup {room} |->
     IF r = room
       THEN (IF room \in DOMAIN ws THEN ws[room] ELSE {}) \cup {c}
       ELSE ws[r]]

\* delete(transcriptWS[room], c): nothing happens when c, or the inner map, is
\* absent
Unregister(ws, room, c) ==
  IF room \in DOMAIN ws THEN [ws EXCEPT ![room] = @ \ {c}] ELSE ws

\* transcriptLock.Lock() / RLock() return only in these states
CanLock == lockW = NoTask /\ lockR = {}
\* (sync.RWMutex: a Lock call that is blocked keeps new readers out; the
\* handlers waiting in Lock are those at "lock" and "defer")
CanRLock == lockW = NoTask /\ \A c \in Conns : pc[c] \notin {"lock", "defer"}

\* ids of the events whose publish is still running
InFlight == {cur[t] : t \in {u \in Tasks : pc[u] \in {"bcast", "iter"}}}
\* ids of the events whose publish has returned
Returned == (1..Len(events)) \ InFlight

\* handleTranscriptionWS, lines 474-477: the handler starts for a new
\* connection and takes the write lock (connections are numbered in the order
\* their handlers start)
WSConnect(c, room) ==
  /\ pc[c] = "none"
  /\ \A d \in Conns : d < c => pc[d] # "none"
  /\ CanLock
  /\ lockW' = c
  /\ pc' = [pc EXCEPT ![c] = "reg"]
  /\ wsRoom' = [wsRoom EXCEPT ![c] = room]
  /\ UNCHANGED <<transcriptWS, lockR, events, cur, todo, snapshot, wlog, before,
                 busy, hubResp>>

\* lines 478-482: the connection is entered in the room's map, the lock released
WSRegister(c) ==
  /\ pc[c] = "reg"
  /\ transcriptWS' = Register(transcriptWS, wsRoom[c], c)
  /\ lockW' = NoTask
  /\ pc' = [pc EXCEPT ![c] = "read"]
  /\ before' = [before EXCEPT ![c] = Returned]
  /\ UNCHANGED <<lockR, wsRoom, events, cur, todo, snapshot, wlog,
                 busy, hubResp>>

\* Mutant of WSReadMsg: the message is broadcast to the room named first
\* instead of the room of the connection.
WSReadMsgFirstRoom(c) ==
  /\ pc[c] = "read"
  /\ Len(events) + 1 \in EventIds
  /\ events' = Append(events, [room |-> "flying-falcon", src |-> c])
  /\ cur' = [cur EXCEPT ![c] = Len(events) + 1]
  /\ pc' = [pc EXCEPT ![c] = "bcast"]
  /\ UNCHANGED <<transcriptWS, lockW, lockR, wsRoom, todo, snapshot,
                 wlog, before, busy, hubResp>>

\* lines 492-498: ReadMessage returns a message of the peer, which the handler
\* goes on to broadcast to its room
WSReadMsg(c) ==
  /\ pc[c] = "read"
  /\ Len(events) + 1 \in EventIds
  /\ events' = Append(events, [room |-> wsRoom[c], src |-> c])
  /\ cur' = [cur EXCEPT ![c] = Len(events) + 1]
  /\ pc' = [pc EXCEPT ![c] = "bcast"]
  /\ UNCHANGED <<transcriptWS, lockW, lockR, wsRoom, todo, snapshot,
                 wlog, before, busy, hubResp>>

\* lines 493-496 and 484-485: ReadMessage fails (the transport closed, or a read
\* error), the loop ends and the deferred function takes the write lock
WSReadErr(c) ==
  /\ pc[c] = "read"
  /\ CanLock
  /\ lockW' = c
  /\ pc' = [pc EXCEPT ![c] = "del"]
  /\ UNCHANGED <<transcriptWS, lockR, wsRoom, events, cur, todo,
                 snapshot, wlog, before, busy, hubResp>>

\* Mutant of WSUnregister: the deferred function closes the connection and
\* leaves it in the map.
WSUnregisterNoDelete(c) ==
  /\ pc[c] = "del"
  /\ lockW' = NoTask
  /\ pc' = [pc EXCEPT ![c] = "done"]
  /\ UNCHANGED <<transcriptWS, lockR, wsRoom, events, cur, todo, snapshot, wlog,
                 before, busy, hubResp>>

\* lines 486-488: the deferred function deletes the connection from the room's
\* map, releases the lock and closes the connection
WSUnregister(c) ==
  /\ pc[c] = "del"
  /\ transcriptWS' = Unregister(transcriptWS, wsRoom[c], c)
  /\ lockW' = NoTask
  /\ pc' = [pc EXCEPT ![c] = "done"]
  /\ UNCHANGED <<lockR, wsRoom, events, cur, todo, snapshot, wlog, before,
                 busy, hubResp>>

\* the ingestion handler that takes the next request: handlers are
\* interchangeable, so the idle one with the lowest number
FirstIdle(h) ==
  /\ pc[h] = "idle"
  /\ \A g \in Ingest : pc[g] = "idle" => g <= h

\* Mutant of receiveTranscriptHandler: the broadcast is handed to a goroutine
\* of its own (go broadcastToRoom) and the Agent is answered at once.
receiveAnsweringEarly(h, room, bodyOk) ==
  /\ FirstIdle(h)
  /\ ~busy
  /\ IF ~bodyOk
       THEN /\ hubResp' = [id |-> 0, code |-> 400, subs |-> {}]
            /\ UNCHANGED <<events, cur, pc>>
       ELSE /\ Len(events) + 1 \in EventIds
            /\ events' = Append(events, [room |-> room, src |-> Agent])
            /\ cur' = [cur EXCEPT ![h] = Len(events) + 1]
            /\ pc' = [pc EXCEPT ![h] = "bcast"]
            /\ hubResp' = [id |-> Len(events) + 1, code |-> 200, subs |-> {}]
  /\ UNCHANGED <<transcriptWS, lockW, lockR, wsRoom, todo, snapshot,
                 wlog, before, busy>>

\* receiveTranscriptHandler, lines 432-438: the Agent sends a fragment for a
\* room; a body that does not parse is answered 400 and nothing is broadcast
receiveTranscriptHandler(h, room, bodyOk) ==
  /\ FirstIdle(h)
  /\ ~busy
  /\ IF ~bodyOk
       THEN /\ hubResp' = [id |-> 0, code |-> 400, subs |-> {}]
            /\ UNCHANGED <<events, cur, pc, busy>>
       ELSE /\ Len(events) + 1 \in EventIds
            /\ events' = Append(events, [room |-> room, src |-> Agent])
            /\ cur' = [cur EXCEPT ![h] = Len(events) + 1]
            /\ pc' = [pc EXCEPT ![h] = "bcast"]
            /\ busy' = TRUE
            /\ UNCHANGED hubResp
  /\ UNCHANGED <<transcriptWS, lockW, lockR, wsRoom, todo, snapshot,
                 wlog, before>>

\* Mutant of BroadcastStart: the loop ranges over the connections of every
\* room instead of those of the room published to.
BroadcastStartAllRooms(t) ==
  /\ pc[t] = "bcast"
  /\ CanRLock
  /\ lockR' = lockR \cup {t}
  /\ todo' = [todo EXCEPT ![t] = UNION {Subs(r) : r \in DOMAIN transcriptWS}]
  /\ snapshot' = [snapshot EXCEPT ![t] = Subs(events[cur[t]].room)]
  /\ pc' = [pc EXCEPT ![t] = "iter"]
  /\ UNCHANGED <<transcriptWS, lockW, wsRoom, events, cur, wlog,
                 before, busy, hubResp>>

\* Mutant of BroadcastStart: the range loop starts without the read lock.
BroadcastStartNoRLock(t) ==
  /\ pc[t] = "bcast"
  /\ todo' = [todo EXCEPT ![t] = Subs(events[cur[t]].room)]
  /\ snapshot' = [snapshot EXCEPT ![t] = Subs(events[cur[t]].room)]
  /\ pc' = [pc EXCEPT ![t] = "iter"]
  /\ UNCHANGED <<transcriptWS, lockW, lockR, wsRoom, events, cur, wlog,
                 before, busy, hubResp>>

\* broadcastToRoom, lines 503-505: RLock, and the range over the room's map
\* begins
BroadcastStart(t) ==
  /\ pc[t] = "bcast"
  /\ CanRLock
  /\ lockR' = lockR \cup {t}
  /\ todo' = [todo EXCEPT ![t] = Subs(events[cur[t]].room)]
  /\ snapshot' = [snapshot EXCEPT ![t] = Subs(events[cur[t]].room)]
  /\ pc' = [pc EXCEPT ![t] = "iter"]
  /\ UNCHANGED <<transcriptWS, lockW, wsRoom, events, cur, wlog,
                 before, busy, hubResp>>

\* Mutant of BroadcastStep: the loop is left at the first WriteMessage that
\* returns an error.
BroadcastStepStopOnError(t, c, ok) ==
  /\ pc[t] = "iter"
  /\ c \in todo[t]
  /\ wlog' = [wlog EXCEPT ![c] = Append(@, [id |-> cur[t], ok |-> ok])]
  /\ todo' = [todo EXCEPT ![t] = IF ok THEN @ \ {c} ELSE {}]
  /\ UNCHANGED <<transcriptWS, lockW, lockR, pc, wsRoom, events, cur,
                 snapshot, before, busy, hubResp>>

\* line 506: one pass of the loop, conn.WriteMessage on a connection the range
\* has not visited yet; the write goes through (ok) or returns an error (the
\* peer or the network has closed the transport), and the result is not
\* looked at
BroadcastStep(t, c, ok) ==
  /\ pc[t] = "iter"
  /\ c \in todo[t]
  /\ wlog' = [wlog EXCEPT ![c] = Append(@, [id |-> cur[t], ok |-> ok])]
  /\ todo' = [todo EXCEPT ![t] = @ \ {c}]
  /\ UNCHANGED <<transcriptWS, lockW, lockR, pc, wsRoom, events, cur,
                 snapshot, before, busy, hubResp>>

\* lines 504 and 439-441: the range is over and the deferred RUnlock runs; the
\* ingestion handler answers {"status": "broadcast"}, the WebSocket handler goes
\* back to ReadMessage
BroadcastFinish(t) ==
  /\ pc[t] = "iter"
  /\ todo[t] = {}
  /\ lockR' = lockR \ {t}
  /\ pc' = [pc EXCEPT ![t] = IF t \in Ingest THEN "idle" ELSE "read"]
  /\ cur' = [cur EXCEPT ![t] = 0]
  /\ snapshot' = [snapshot EXCEPT ![t] = {}]
  /\ IF t \in Ingest
       THEN /\ busy' = FALSE
            /\ hubResp' = [id |-> cur[t], code |-> 200, subs |-> snapshot[t]]
       ELSE UNCHANGED <<busy, hubResp>>
  /\ UNCHANGED <<transcriptWS, lockW, wsRoom, events, todo, wlog, before>>

\* line 506, the call: the task enters conn.WriteMessage on a connection the
\* range has not visited yet
WriteMessageBegin(t, c) ==
  /\ pc[t] = "iter"
  /\ writing[t] = 0
  /\ c \in todo[t]
  /\ writing' = [writing EXCEPT ![t] = c]
  /\ UNCHANGED hubVars

\* line 506, the return: the write went through (ok) or returned an error,
\* and the loop goes on
WriteMessageEnd(t, ok) ==
  /\ writing[t] # 0
  /\ wlog' = [wlog EXCEPT ![writing[t]] = Append(@, [id |-> cur[t], ok |-> ok])]
  /\ todo' = [todo EXCEPT ![t] = @ \ {writing[t]}]
  /\ writing' = [writing EXCEPT ![t] = 0]
  /\ UNCHANGED <<transcriptWS, lockW, lockR, pc, wsRoom, events, cur,
                 snapshot, before, busy, hubResp>>

\* the relay hub with the calls of WriteMessage taking time, one room
NextWrite ==
  \/ \E c \in Conns, r \in StoreRooms : WSConnect(c, r) /\ UNCHANGED exceptHub
  \/ \E c \in Conns : WSRegister(c) /\ UNCHANGED exceptHub
  \/ \E c \in Conns : WSReadMsg(c) /\ UNCHANGED exceptHub
  \/ \E c \in Conns : WSReadErr(c) /\ UNCHANGED exceptHub
  \/ \E c \in Conns : WSUnregister(c) /\ UNCHANGED exceptHub
  \/ \E h \in Ingest, r \in StoreRooms :
       receiveTranscriptHandler(h, r, TRUE) /\ UNCHANGED exceptHub
  \/ \E t \in Tasks : BroadcastStart(t) /\ UNCHANGED exceptHub
  \/ \E t \in Tasks, c \in Conns :
       WriteMessageBegin(t, c) /\ UNCHANGED exceptWrite
  \/ \E t \in Tasks, ok \in BOOLEAN :
       WriteMessageEnd(t, ok) /\ UNCHANGED exceptWrite
  \/ \E t \in Tasks : BroadcastFinish(t) /\ UNCHANGED exceptHub

\* handleTranscriptionWS, lines 474-477, the call: the handler starts for a
\* new connection and calls transcriptLock.Lock()
WSAccept(c, room) ==
  /\ pc[c] = "none"
  /\ \A d \in Conns : d < c => pc[d] # "none"
  /\ pc' = [pc EXCEPT ![c] = "lock"]
  /\ wsRoom' = [wsRoom EXCEPT ![c] = room]
  /\ UNCHANGED <<transcriptWS, lockW, lockR, events, cur, todo, snapshot, wlog,
                 before, busy, hubResp, writing, stalled>>

\* line 477, the return: Lock() returns once no reader and no writer holds
\* the lock
WSLock(c) ==
  /\ pc[c] = "lock"
  /\ CanLock
  /\ lockW' = c
  /\ pc' = [pc EXCEPT ![c] = "reg"]
  /\ UNCHANGED <<transcriptWS, lockR, wsRoom, events, cur, todo, snapshot, wlog,
                 before, busy, hubResp, writing, stalled>>

\* lines 493-496 and 484-485, the call: ReadMessage fails, the loop ends and
\* the deferred function calls transcriptLock.Lock() (a peer that has
\* stopped reading keeps the transport open: its ReadMessage stays blocked)
WSReadFail(c) ==
  /\ pc[c] = "read"
  /\ c \notin stalled
  /\ pc' = [pc EXCEPT ![c] = "defer"]
  /\ UNCHANGED <<transcriptWS, lockW, lockR, wsRoom, events, cur, todo,
                 snapshot, wlog, before, busy, hubResp, writing, stalled>>

\* line 485, the return of Lock() in the deferred function
WSDeferLock(c) ==
  /\ pc[c] = "defer"
  /\ CanLock
  /\ lockW' = c
  /\ pc' = [pc EXCEPT ![c] = "del"]
  /\ UNCHANGED <<transcriptWS, lockR, wsRoom, events, cur, todo, snapshot, wlog,
                 before, busy, hubResp, writing, stalled>>

\* the peer of a connection stops reading while the transport stays open: once
\* the send buffers are full a WriteMessage on the connection does not return
\* (no write deadline is set on the connection, lines 473-508)
PeerStopsReading(c) ==
  /\ pc[c] \in {"read", "bcast", "iter"}
  /\ c \notin stalled
  /\ stalled' = stalled \cup {c}
  /\ UNCHANGED <<hubVars, writing>>

\* line 506, the return, which comes only for a connection whose peer reads
WriteMessageReturn(t, ok) ==
  /\ writing[t] \notin stalled
  /\ WriteMessageEnd(t, ok)
  /\ UNCHANGED stalled

\* the steps a running handler takes by itself
StallStep(t) ==
  \/ t \in Conns /\ WSLock(t) /\ UNCHANGED exceptStall
  \/ t \in Conns /\ WSRegister(t) /\ UNCHANGED exceptHub
  \/ t \in Conns /\ WSDeferLock(t) /\ UNCHANGED exceptStall
  \/ t \in Conns /\ WSUnregister(t) /\ UNCHANGED exceptHub
  \/ BroadcastStart(t) /\ UNCHANGED exceptHub
  \/ \E c \in Conns : WriteMessageBegin(t, c) /\ UNCHANGED exceptWrite
  \/ \E ok \in BOOLEAN : WriteMessageReturn(t, ok) /\ UNCHANGED exceptStall
  \/ BroadcastFinish(t) /\ UNCHANGED exceptHub

\* the relay hub with the waits for the lock and for the peers made visible,
\* two connections
NextStall ==
  \/ \E c \in {1, 2}, r \in RoomNames : WSAccept(c, r) /\ UNCHANGED exceptStall
  \/ \E c \in Conns : WSReadMsg(c) /\ UNCHANGED exceptHub
  \/ \E c \in Conns : WSReadFail(c) /\ UNCHANGED exceptStall
  \/ \E c \in Conns : PeerStopsReading(c) /\ UNCHANGED exceptStall
  \/ \E h \in Ingest, r \in RoomNames :
       receiveTranscriptHandler(h, r, TRUE) /\ UNCHANGED exceptHub
  \/ \E t \in Tasks : StallStep(t)

InitHub ==
  /\ transcriptWS = <<>>
  /\ lockW = NoTask
  /\ lockR = {}
  /\ pc = [t \in Tasks |-> IF t \in Ingest THEN "idle" ELSE "none"]
  /\ wsRoom = [c \in Conns |-> ""]
  /\ events = <<>>
  /\ cur = [t \in Tasks |-> 0]
  /\ todo = [t \in Tasks |-> {}]
  /\ snapshot = [t \in Tasks |-> {}]
  /\ wlog = [c \in Conns |-> <<>>]
  /\ before = [c \in Conns |-> {}]
  /\ busy = FALSE
  /\ hubResp = NoPublish
  /\ writing = [t \in Tasks |-> 0]
  /\ stalled = {}

NextHub ==
  \/ \E c \in Conns, r \in RoomNames : WSConnect(c, r) /\ UNCHANGED exceptHub
  \/ \E c \in Conns : WSRegister(c) /\ UNCHANGED exceptHub
  \/ \E c \in Conns : WSReadMsg(c) /\ UNCHANGED exceptHub
  \/ \E c \in Conns : WSReadErr(c) /\ UNCHANGED exceptHub
  \/ \E c \in Conns : WSUnregister(c) /\ UNCHANGED exceptHub
  \/ \E h \in Ingest, r \in RoomNames, b \in BOOLEAN :
       receiveTranscriptHandler(h, r, b) /\ UNCHANGED exceptHub
  \/ \E t \in Tasks : BroadcastStart(t) /\ UNCHANGED exceptHub
  \/ \E t \in Tasks, c \in Conns, ok \in BOOLEAN :
       BroadcastStep(t, c, ok) /\ UNCHANGED exceptHub
  \/ \E t \in Tasks : BroadcastFinish(t) /\ UNCHANGED exceptHub

(***************************************************************************)
(* Meetings table: get-or-create of a meeting row                          *)
(***************************************************************************)
\* GetMeetingByRoom: SELECT ... FROM meetings WHERE room_name = ?; the id of the
\* row, or 0 when Scan returns sql.ErrNoRows
GetMeetingByRoom(roomName) ==
  IF \E i \in DOMAIN meetings : meetings[i] = roomName
    THEN CHOOSE i \in DOMAIN meetings : meetings[i] = roomName
    ELSE 0

\* CreateMeeting, the id it returns when its statement runs on connection k:
\* result.LastInsertId() is the rowid of the new row when the INSERT inserts,
\* and, when ON CONFLICT(room_name) DO UPDATE runs instead, the rowid of the
\* last row connection k inserted before (0 if none): an upsert that updates
\* leaves the connection's last insert rowid as it was
CreateMeeting(roomName, k) ==
  IF GetMeetingByRoom(roomName) = 0 THEN Len(meetings) + 1
  ELSE lastInsertRowid[k]

\* startTranscriptionHandler, lines 361-365: GetMeetingByRoom; a row found
\* gives meeting.ID, no row sends the handler to CreateMeeting
StartTranscriptionGet(t, room) ==
  /\ meetTask[t].pc = "idle"
  /\ \A u \in MeetTasks : u < t => meetTask[u].pc # "idle"
  /\ meetTask' = [meetTask EXCEPT ![t] =
       IF GetMeetingByRoom(room) # 0
         THEN [pc |-> "join", room |-> room, id |-> GetMeetingByRoom(room),
               prev |-> lastStart[room], calls |-> 0]
         ELSE [pc |-> "create", room |-> room, id |-> 0,
               prev |-> lastStart[room], calls |-> 0]]
  /\ UNCHANGED <<meetings, lastInsertRowid, meetResp, sessions, lastStart,
                 endResp>>

\* Mutant of StartTranscriptionCreate: the INSERT has no ON CONFLICT clause and
\* room_name is not UNIQUE, so a second row of the room is inserted.
StartTranscriptionCreateTwice(t, k, ok) ==
  /\ meetTask[t].pc = "create"
  /\ IF ~ok
       THEN /\ meetTask' = [meetTask EXCEPT ![t] = IdleMeet]
            /\ meetResp' = [room |-> meetTask[t].room, id |-> 0, code |-> 500,
                            prev |-> meetTask[t].prev, calls |-> 0,
                            agent |-> ""]
            /\ UNCHANGED <<meetings, lastInsertRowid>>
       ELSE /\ meetTask' = [meetTask EXCEPT ![t].pc = "join",
                                            ![t].id = Len(meetings) + 1]
            /\ meetings' = Append(meetings, meetTask[t].room)
            /\ lastInsertRowid' =
                 [lastInsertRowid EXCEPT ![k] = Len(meetings) + 1]
            /\ UNCHANGED meetResp
  /\ UNCHANGED <<sessions, lastStart, endResp>>

\* lines 366-369: CreateMeeting on a connection k of the pool; db.Exec failing
\* is answered 500
StartTranscriptionCreate(t, k, ok) ==
  /\ meetTask[t].pc = "create"
  /\ IF ~ok
       THEN /\ meetTask' = [meetTask EXCEPT ![t] = IdleMeet]
            /\ meetResp' = [room |-> meetTask[t].room, id |-> 0, code |-> 500,
                            prev |-> meetTask[t].prev, calls |-> 0,
                            agent |-> ""]
            /\ UNCHANGED <<meetings, lastInsertRowid>>
       ELSE /\ meetTask' = [meetTask EXCEPT ![t].pc = "join",
                                            ![t].id = CreateMeeting(meetTask[t].room, k)]
            /\ IF GetMeetingByRoom(meetTask[t].room) = 0
                 THEN /\ meetings' = Append(meetings, meetTask[t].room)
                      /\ lastInsertRowid' =
                           [lastInsertRowid EXCEPT ![k] = Len(meetings) + 1]
                 ELSE UNCHANGED <<meetings, lastInsertRowid>>
            /\ UNCHANGED meetResp
  /\ UNCHANGED <<sessions, lastStart, endResp>>

\* The Transcription Agent's POST /join: it starts a session in the room
\* unless it has one there already, and acknowledges in both cases.
AgentJoin(room) ==
  IF sessions[room] = 0 THEN [sessions EXCEPT ![room] = 1] ELSE sessions

\* The Transcription Agent's POST /leave: 404 when it has no session in the
\* room; else it ends the session and accepts (200), the notes follow later
\* by POST /api/meetings/:room/notes.
AgentLeaveStatus(room) == IF sessions[room] = 0 THEN 404 ELSE 200

AgentLeave(room) == [sessions EXCEPT ![room] = 0]

\* lines 372-391: the AI service is asked to join the room, once; its failure
\* (http.Post returns an error, or the status is not 200) is answered 500, its
\* success 200 with meetingId = meeting.ID
StartTranscriptionJoin(t, ok) ==
  /\ meetTask[t].pc = "join"
  /\ meetTask' = [meetTask EXCEPT ![t] = IdleMeet]
  /\ meetResp' = [room |-> meetTask[t].room,
                  id |-> IF ok THEN meetTask[t].id ELSE 0,
                  code |-> IF ok THEN 200 ELSE 500,
                  prev |-> meetTask[t].prev,
                  calls |-> meetTask[t].calls + 1,
                  agent |-> IF ok THEN "joins" ELSE "fails"]
  /\ sessions' = IF ok THEN AgentJoin(meetTask[t].room) ELSE sessions
  /\ lastStart' = IF ok THEN [lastStart EXCEPT ![meetTask[t].room] = meetTask[t].id]
                  ELSE lastStart
  /\ UNCHANGED <<meetings, lastInsertRowid, endResp>>

\* Mutant of endTranscriptionHandler: the Agent's 404 is not told apart from
\* its other failures.
endTreating404AsFailure(room, agent) ==
  LET StatusCode == IF agent = "fails" THEN 500 ELSE AgentLeaveStatus(room)
      code == IF agent = "unreachable" THEN 500
              ELSE IF StatusCode # 200 THEN 500
              ELSE 200
  IN  /\ endResp' = [room |-> room, code |-> code,
                     status |-> IF code = 200 THEN "processing" ELSE "",
                     agent |-> agent, hadSession |-> sessions[room] # 0,
                     calls |-> 1]
      /\ sessions' = IF agent = "answers" THEN AgentLeave(room) ELSE sessions
      /\ UNCHANGED <<meetings, lastInsertRowid, meetTask, meetResp, lastStart>>

\* endTranscriptionHandler, lines 394-420: the AI service is asked to leave
\* the room. http.Post fails (500), or the AI service answers 404 (answered
\* 404), another status that is not 200 (500), or 200 (answered 200 with
\* status "processing").
endTranscriptionHandler(room, agent) ==
  LET StatusCode == IF agent = "fails" THEN 500 ELSE AgentLeaveStatus(room)
      code == IF agent = "unreachable" THEN 500
              ELSE IF StatusCode = 404 THEN 404
              ELSE IF StatusCode # 200 THEN 500
              ELSE 200
  IN  /\ endResp' = [room |-> room, code |-> code,
                     status |-> IF code = 200 THEN "processing" ELSE "",
                     agent |-> agent, hadSession |-> sessions[room] # 0,
                     calls |-> 1]
      /\ sessions' = IF agent = "answers" THEN AgentLeave(room) ELSE sessions
      /\ UNCHANGED <<meetings, lastInsertRowid, meetTask, meetResp, lastStart>>

\* the handlers that call the Room Service or the AI service, one request of
\* each kind at a time
NextUpstream ==
  \/ \E r \in StoreRooms :
       createScheduledMeetingHandler(1, r, "ok") /\ UNCHANGED exceptSched
  \/ \E id \in SchedIds :
       StartCheck(1, 1, id) /\ UNCHANGED exceptSched
  \/ \E ok \in BOOLEAN :
       StartCreateRoom(1, ok) /\ UNCHANGED exceptSched
  \/ StartUpdate(1) /\ UNCHANGED exceptSched
  \/ \E r \in StoreRooms :
       StartTranscriptionGet(1, r) /\ UNCHANGED exceptMeet
  \/ \E k \in DbConns, ok \in BOOLEAN :
       StartTranscriptionCreate(1, k, ok) /\ UNCHANGED exceptMeet
  \/ \E ok \in BOOLEAN :
       StartTranscriptionJoin(1, ok) /\ UNCHANGED exceptMeet
  \/ \E r \in StoreRooms, agent \in {"answers", "fails", "unreachable"} :
       endTranscriptionHandler(r, agent) /\ UNCHANGED exceptMeet

InitMeet ==
  /\ meetings = <<>>
  /\ lastInsertRowid = [k \in DbConns |-> 0]
  /\ meetTask = [t \in MeetTasks |-> IdleMeet]
  /\ meetResp = NoMeetResp
  /\ sessions = [r \in RoomNames |-> 0]
  /\ lastStart = [r \in RoomNames |-> NoPrev]
  /\ endResp = NoEndResp

NextMeet ==
  \/ \E t \in MeetTasks, r \in RoomNames :
       StartTranscriptionGet(t, r) /\ UNCHANGED exceptMeet
  \/ \E t \in MeetTasks, k \in DbConns, ok \in BOOLEAN :
       StartTranscriptionCreate(t, k, ok) /\ UNCHANGED exceptMeet
  \/ \E t \in MeetTasks, ok \in BOOLEAN :
       StartTranscriptionJoin(t, ok) /\ UNCHANGED exceptMeet

\* start-transcription and end-transcription of one room
NextTranscribe ==
  \/ \E t \in MeetTasks, r \in StoreRooms :
       StartTranscriptionGet(t, r) /\ UNCHANGED exceptMeet
  \/ \E t \in MeetTasks, k \in DbConns, ok \in BOOLEAN :
       StartTranscriptionCreate(t, k, ok) /\ UNCHANGED exceptMeet
  \/ \E t \in MeetTasks, ok \in BOOLEAN :
       StartTranscriptionJoin(t, ok) /\ UNCHANGED exceptMeet
  \/ \E r \in StoreRooms, agent \in {"answers", "fails", "unreachable"} :
       endTranscriptionHandler(r, agent) /\ UNCHANGED exceptMeet

(***************************************************************************)
(* Notes and e-mail subscriptions                                          *)
(***************************************************************************)
\* the meeting_notes rows WHERE meeting_id = mid
NotesOf(mid) == {i \in DOMAIN meeting_notes : meeting_notes[i].meeting_id = mid}

\* the rows ORDER BY generated_at DESC LIMIT 1 may return: generated_at is
\* CURRENT_TIMESTAMP, a count of seconds, and SQL leaves the order of rows of
\* equal generated_at open
LatestNotes(mid) ==
  {i \in NotesOf(mid) :
     \A j \in NotesOf(mid) :
       meeting_notes[j].generated_at <= meeting_notes[i].generated_at}

\* the email_subscriptions rows of (meeting_id, email)
SubsOf(mid, email) ==
  {r \in email_subscriptions : r.meeting_id = mid /\ r.email = email}

\* the handler that takes the next request: handlers are interchangeable, so
\* the idle one with the lowest number
FirstIdleStore(t) ==
  /\ storeTask[t].pc = "idle"
  /\ \A u \in StoreTasks : u < t => storeTask[u].pc # "idle"

InFlightOp(op) == {u \in StoreTasks : storeTask[u].op = op}

StoreReply(op, room, code, body, email, name) ==
  [op |-> op, room |-> room, code |-> code, body |-> body, email |-> email,
   name |-> name,
   latest |-> IF op = "getNotes" THEN lastSaved[room] ELSE "",
   hasRows |-> /\ op = "getNotes"
               /\ GetMeetingByRoom(room) # 0
               /\ NotesOf(GetMeetingByRoom(room)) # {},
   count |-> 0]

\* saveNotesHandler, lines 684-690, and SaveNotes, db.go 99-100: a body that
\* does not parse is answered 400; else GetMeetingByRoom
SaveNotesGet(t, room, body, bodyOk) ==
  /\ FirstIdleStore(t)
  /\ IF ~bodyOk
       THEN /\ storeResp' = StoreReply("save", room, 400, "", "", "")
            /\ UNCHANGED storeTask
       ELSE /\ Len(meeting_notes) + Cardinality(InFlightOp("save")) < MaxNotes
            /\ storeTask' = [storeTask EXCEPT ![t] =
                 [IdleStore EXCEPT
                    !.pc = IF GetMeetingByRoom(room) # 0 THEN "insert" ELSE "create",
                    !.op = "save", !.room = room, !.body = body,
                    !.mid = GetMeetingByRoom(room)]]
            /\ UNCHANGED storeResp
  /\ UNCHANGED <<meetings, lastInsertRowid, meeting_notes, email_subscriptions,
                 subSeq, now, emailJobs, lastSaved, emailOutcome, webhookCalls>>

\* subscribeEmailHandler, lines 735-742, and CreateEmailSubscription, part_009
\* 291-292: a body that does not parse or an empty email is answered 400; else
\* GetMeetingByRoom
SubscribeGet(t, room, email, name, req) ==
  /\ FirstIdleStore(t)
  /\ IF req # "ok"
       THEN /\ storeResp' = StoreReply("subscribe", room, 400, "", "", "")
            /\ UNCHANGED storeTask
       ELSE /\ subSeq + Cardinality(InFlightOp("subscribe")) + 1 \in SubIds
            /\ storeTask' = [storeTask EXCEPT ![t] =
                 [IdleStore EXCEPT
                    !.pc = IF GetMeetingByRoom(room) # 0 THEN "insert" ELSE "create",
                    !.op = "subscribe", !.room = room, !.email = email,
                    !.name = name, !.mid = GetMeetingByRoom(room)]]
            /\ UNCHANGED storeResp
  /\ UNCHANGED <<meetings, lastInsertRowid, meeting_notes, email_subscriptions,
                 subSeq, now, emailJobs, lastSaved, emailOutcome, webhookCalls>>

\* SaveNotes, db.go 100-106, and CreateEmailSubscription, part_009 292-297:
\* no meeting was found, CreateMeeting runs on a connection k of the pool; its
\* failure is answered 500
StoreCreateMeeting(t, k, ok) ==
  /\ storeTask[t].pc = "create"
  /\ IF ~ok
       THEN /\ storeTask' = [storeTask EXCEPT ![t] = IdleStore]
            /\ storeResp' = StoreReply(storeTask[t].op, storeTask[t].room, 500,
                                       "", "", "")
            /\ UNCHANGED <<meetings, lastInsertRowid>>
       ELSE /\ storeTask' = [storeTask EXCEPT
                 ![t].pc = "insert",
                 ![t].mid = CreateMeeting(storeTask[t].room, k)]
            /\ IF GetMeetingByRoom(storeTask[t].room) = 0
                 THEN /\ meetings' = Append(meetings, storeTask[t].room)
                      /\ lastInsertRowid' =
                           [lastInsertRowid EXCEPT ![k] = Len(meetings) + 1]
                 ELSE UNCHANGED <<meetings, lastInsertRowid>>
            /\ UNCHANGED storeResp
  /\ UNCHANGED <<meeting_notes, email_subscriptions, subSeq, now, emailJobs,
                 lastSaved, emailOutcome, webhookCalls>>

\* Mutant of SaveNotesInsert: the handler runs TriggerEmailWorkflow itself and
\* answers 500 when the workflow reached nobody.
SaveNotesInsertAwaitingEmail(t, k, ok) ==
  /\ storeTask[t].pc = "insert"
  /\ storeTask[t].op = "save"
  /\ storeTask' = [storeTask EXCEPT ![t] = IdleStore]
  /\ IF ~ok
       THEN /\ storeResp' = StoreReply("save", storeTask[t].room, 500, "", "", "")
            /\ UNCHANGED <<meeting_notes, lastInsertRowid, lastSaved>>
       ELSE /\ meeting_notes' = Append(meeting_notes,
                 [meeting_id |-> storeTask[t].mid, body |-> storeTask[t].body,
                  generated_at |-> now])
            /\ lastInsertRowid' =
                 [lastInsertRowid EXCEPT ![k] = Len(meeting_notes) + 1]
            /\ storeResp' = StoreReply("save", storeTask[t].room,
                 IF email_subscriptions = {} THEN 500 ELSE 200,
                 storeTask[t].body, "", "")
            /\ lastSaved' = [lastSaved EXCEPT ![storeTask[t].room] = storeTask[t].body]
  /\ UNCHANGED <<meetings, email_subscriptions, subSeq, now, emailJobs, emailOutcome, webhookCalls>>

\* SaveNotes, db.go 108-126, and saveNotesHandler, lines 691-701: the INSERT
\* into meeting_notes (generated_at defaults to CURRENT_TIMESTAMP); its failure
\* is answered 500; else TriggerEmailWorkflow is started as a goroutine and
\* the request answered 200
SaveNotesInsert(t, k, ok) ==
  /\ storeTask[t].pc = "insert"
  /\ storeTask[t].op = "save"
  /\ storeTask' = [storeTask EXCEPT ![t] = IdleStore]
  /\ IF ~ok
       THEN /\ storeResp' = StoreReply("save", storeTask[t].room, 500, "", "", "")
            /\ UNCHANGED <<meeting_notes, lastInsertRowid, lastSaved, emailJobs>>
       ELSE /\ meeting_notes' = Append(meeting_notes,
                 [meeting_id |-> storeTask[t].mid, body |-> storeTask[t].body,
                  generated_at |-> now])
            /\ lastInsertRowid' =
                 [lastInsertRowid EXCEPT ![k] = Len(meeting_notes) + 1]
            /\ storeResp' = StoreReply("save", storeTask[t].room, 200,
                                       storeTask[t].body, "", "")
            /\ lastSaved' = [lastSaved EXCEPT ![storeTask[t].room] = storeTask[t].body]
            /\ emailJobs' = emailJobs \cup
                 {[id |-> Len(meeting_notes) + 1, room |-> storeTask[t].room,
                   notes |-> storeTask[t].body, pc |-> "start"]}
  /\ UNCHANGED <<meetings, email_subscriptions, subSeq, now, emailOutcome, webhookCalls>>

\* INSERT INTO email_subscriptions ... ON CONFLICT(meeting_id, email) DO UPDATE
\* SET participant_name = ?, part_009 299-302: the table after the statement
Upsert(rows, mid, email, name) ==
  {r \in rows : ~(r.meeting_id = mid /\ r.email = email)}
    \cup {[meeting_id |-> mid, email |-> email, participant_name |-> name]}

\* CreateEmailSubscription, part_009 299-315, and subscribeEmailHandler, lines
\* 743-751: the upsert; its failure is answered 500
SubscribeUpsert(t, k, ok) ==
  /\ storeTask[t].pc = "insert"
  /\ storeTask[t].op = "subscribe"
  /\ storeTask' = [storeTask EXCEPT ![t] = IdleStore]
  /\ IF ~ok
       THEN /\ storeResp' = StoreReply("subscribe", storeTask[t].room, 500,
                                       "", "", "")
            /\ UNCHANGED <<email_subscriptions, subSeq, lastInsertRowid>>
       ELSE /\ email_subscriptions' = Upsert(email_subscriptions, storeTask[t].mid,
                                            storeTask[t].email, storeTask[t].name)
            /\ IF SubsOf(storeTask[t].mid, storeTask[t].email) = {}
                 THEN /\ subSeq' = subSeq + 1
                      /\ lastInsertRowid' =
                           [lastInsertRowid EXCEPT ![k] = subSeq + 1]
                 ELSE UNCHANGED <<subSeq, lastInsertRowid>>
            /\ storeResp' = StoreReply("subscribe", storeTask[t].room, 200, "",
                                       storeTask[t].email, storeTask[t].name)
  /\ UNCHANGED <<meetings, meeting_notes, now, emailJobs, lastSaved, emailOutcome, webhookCalls>>

\* Mutant of getNotesHandler: a room without notes is answered 200 with empty
\* notes.
getNotesAnsweringEmpty(room, i) ==
  /\ IF GetMeetingByRoom(room) = 0 \/ NotesOf(GetMeetingByRoom(room)) = {}
       THEN /\ i = 0
            /\ storeResp' = StoreReply("getNotes", room, 200, "", "", "")
       ELSE /\ i \in LatestNotes(GetMeetingByRoom(room))
            /\ storeResp' = StoreReply("getNotes", room, 200,
                                       meeting_notes[i].body, "", "")
  /\ UNCHANGED <<meetings, lastInsertRowid, meeting_notes, email_subscriptions,
                 subSeq, now, storeTask, emailJobs, lastSaved, emailOutcome, webhookCalls>>

\* getNotesHandler, lines 704-713, and GetNotesByRoom, db.go 129-144: no
\* meeting, or no notes row of the meeting, is answered 404; else the row the
\* SELECT returns (row i) is answered
getNotesHandler(room, i) ==
  /\ IF GetMeetingByRoom(room) = 0 \/ NotesOf(GetMeetingByRoom(room)) = {}
       THEN /\ i = 0
            /\ storeResp' = StoreReply("getNotes", room, 404, "", "", "")
       ELSE /\ i \in LatestNotes(GetMeetingByRoom(room))
            /\ storeResp' = StoreReply("getNotes", room, 200,
                                       meeting_notes[i].body, "", "")
  /\ UNCHANGED <<meetings, lastInsertRowid, meeting_notes, email_subscriptions,
                 subSeq, now, storeTask, emailJobs, lastSaved, emailOutcome, webhookCalls>>

\* unsubscribeEmailHandler, lines 775-787, and DeleteEmailSubscription,
\* part_009 345-353: a body that does not parse is answered 400, a room
\* without meeting or a failing DELETE 500; else the rows of (meeting, email)
\* are deleted
unsubscribeEmailHandler(room, email, req) ==
  /\ IF req = "badBody"
       THEN /\ storeResp' = StoreReply("unsubscribe", room, 400, "", "", "")
            /\ UNCHANGED email_subscriptions
       ELSE IF GetMeetingByRoom(room) = 0 \/ req = "dbError"
         THEN /\ storeResp' = StoreReply("unsubscribe", room, 500, "", "", "")
              /\ UNCHANGED email_subscriptions
         ELSE /\ email_subscriptions' =
                   email_subscriptions \ SubsOf(GetMeetingByRoom(room), email)
              /\ storeResp' = StoreReply("unsubscribe", room, 200, "", email, "")
  /\ UNCHANGED <<meetings, lastInsertRowid, meeting_notes, subSeq, now,
                 storeTask, emailJobs, lastSaved, emailOutcome, webhookCalls>>

\* GetEmailSubscriptionsByRoom, part_009 318-342: the subscriptions
\* TriggerEmailWorkflow finds for a room
GetEmailSubscriptionsByRoom(room) ==
  IF GetMeetingByRoom(room) = 0 THEN {}
  ELSE {r \in email_subscriptions : r.meeting_id = GetMeetingByRoom(room)}

\* getEmailSubscriptionsHandler, lines 754-769: the subscriptions of the room
\* and their number; when GetEmailSubscriptionsByRoom fails, as it does for a
\* room without meeting, an empty list with count 0. Both are answered 200.
getEmailSubscriptionsHandler(room) ==
  /\ storeResp' = [StoreReply("list", room, 200, "", "", "") EXCEPT
                     !.count = Cardinality(GetEmailSubscriptionsByRoom(room))]
  /\ UNCHANGED <<meetings, lastInsertRowid, meeting_notes, email_subscriptions,
                 subSeq, now, storeTask, emailJobs, lastSaved, emailOutcome,
                 webhookCalls>>

\* Mutant of TriggerEmailWorkflow: the webhook is called also for a room
\* without subscriptions.
TriggerEmailWorkflowAnyway(job, webhookURL) ==
  /\ job \in emailJobs
  /\ job.pc = "start"
  /\ IF webhookURL = ""
       THEN /\ emailJobs' = emailJobs \ {job}
            /\ emailOutcome' = "unset"
            /\ UNCHANGED webhookCalls
       ELSE /\ emailJobs' = (emailJobs \ {job}) \cup {[job EXCEPT !.pc = "posted"]}
            /\ webhookCalls' = Append(webhookCalls,
                 [id |-> job.id, roomName |-> job.room, notes |-> job.notes,
                  url |-> webhookURL,
                  recipients |-> GetEmailSubscriptionsByRoom(job.room)])
            /\ UNCHANGED emailOutcome
  /\ UNCHANGED <<meetings, lastInsertRowid, meeting_notes, email_subscriptions,
                 subSeq, now, storeTask, lastSaved, storeResp>>

\* TriggerEmailWorkflow, part_005 21-48, running as the goroutine saveNotes
\* started; webhookURL is what os.Getenv answers. Without a URL, and for a
\* room without subscriptions, the goroutine logs and ends; else it posts the
\* room, the notes and the subscriptions it read to the webhook.
TriggerEmailWorkflow(job, webhookURL) ==
  /\ job \in emailJobs
  /\ job.pc = "start"
  /\ IF webhookURL = ""
       THEN /\ emailJobs' = emailJobs \ {job}
            /\ emailOutcome' = "unset"
            /\ UNCHANGED webhookCalls
       ELSE IF GetEmailSubscriptionsByRoom(job.room) = {}
         THEN /\ emailJobs' = emailJobs \ {job}
              /\ emailOutcome' = "none"
              /\ UNCHANGED webhookCalls
         ELSE /\ emailJobs' = (emailJobs \ {job}) \cup {[job EXCEPT !.pc = "posted"]}
              /\ webhookCalls' = Append(webhookCalls,
                   [id |-> job.id, roomName |-> job.room, notes |-> job.notes,
                    url |-> webhookURL,
                    recipients |-> GetEmailSubscriptionsByRoom(job.room)])
              /\ UNCHANGED emailOutcome
  /\ UNCHANGED <<meetings, lastInsertRowid, meeting_notes, email_subscriptions,
                 subSeq, now, storeTask, lastSaved, storeResp>>

\* TriggerEmailWorkflow, part_005 48-60: the POST fails ("postError"), or the
\* webhook answers outside 2xx ("non2xx") or inside ("sent"); each outcome is
\* logged and the goroutine ends
WebhookAnswer(job, outcome) ==
  /\ job \in emailJobs
  /\ job.pc = "posted"
  /\ emailJobs' = emailJobs \ {job}
  /\ emailOutcome' = outcome
  /\ UNCHANGED <<meetings, lastInsertRowid, meeting_notes, email_subscriptions,
                 subSeq, now, storeTask, lastSaved, storeResp, webhookCalls>>

\* a second passes
Tick ==
  /\ now + 1 \in Seconds
  /\ now' = now + 1
  /\ UNCHANGED <<meetings, lastInsertRowid, meeting_notes, email_subscriptions,
                 subSeq, storeTask, emailJobs, lastSaved, emailOutcome, webhookCalls, storeResp>>

InitStore ==
  /\ meeting_notes = <<>>
  /\ email_subscriptions = {}
  /\ subSeq = 0
  /\ now = 0
  /\ storeTask = [t \in StoreTasks |-> IdleStore]
  /\ emailJobs = {}
  /\ webhookCalls = <<>>
  /\ lastSaved = [r \in StoreRooms |-> ""]
  /\ emailOutcome = ""
  /\ storeResp = NoStoreResp

\* saving and reading notes
NextNotes ==
  \/ \E t \in StoreTasks, r \in StoreRooms, b \in Bodies, ok \in BOOLEAN :
       SaveNotesGet(t, r, b, ok) /\ UNCHANGED <<exceptStore, recVars>>
  \/ \E t \in StoreTasks, k \in DbConns, ok \in BOOLEAN :
       StoreCreateMeeting(t, k, ok) /\ UNCHANGED <<exceptStore, recVars>>
  \/ \E t \in StoreTasks, k \in DbConns, ok \in BOOLEAN :
       SaveNotesInsert(t, k, ok) /\ UNCHANGED <<exceptStore, recVars>>
  \/ \E r \in StoreRooms, i \in 0..MaxNotes :
       getNotesHandler(r, i) /\ UNCHANGED <<exceptStore, recVars>>
  \/ \E job \in emailJobs, url \in WebhookURLs :
       TriggerEmailWorkflow(job, url) /\ UNCHANGED <<exceptStore, recVars>>
  \/ Tick /\ UNCHANGED <<exceptStore, recVars>>

\* saving notes while participants subscribe: the notification (one body and
\* one display name are enough here, the workflow passes both on unread)
NextMail ==
  \/ \E t \in StoreTasks, r \in StoreRooms, b \in {"notes-v1"}, ok \in BOOLEAN :
       SaveNotesGet(t, r, b, ok) /\ UNCHANGED <<exceptStore, recVars>>
  \/ \E t \in StoreTasks, r \in StoreRooms, e \in Emails, n \in {"Ann"},
        req \in {"ok", "badBody", "noEmail"} :
       SubscribeGet(t, r, e, n, req) /\ UNCHANGED <<exceptStore, recVars>>
  \/ \E t \in StoreTasks, k \in DbConns, ok \in BOOLEAN :
       StoreCreateMeeting(t, k, ok) /\ UNCHANGED <<exceptStore, recVars>>
  \/ \E t \in StoreTasks, k \in DbConns, ok \in BOOLEAN :
       SaveNotesInsert(t, k, ok) /\ UNCHANGED <<exceptStore, recVars>>
  \/ \E t \in StoreTasks, k \in DbConns, ok \in BOOLEAN :
       SubscribeUpsert(t, k, ok) /\ UNCHANGED <<exceptStore, recVars>>
  \/ \E job \in emailJobs, url \in WebhookURLs :
       TriggerEmailWorkflow(job, url) /\ UNCHANGED <<exceptStore, recVars>>
  \/ \E job \in emailJobs, outcome \in {"postError", "non2xx", "sent"} :
       WebhookAnswer(job, outcome) /\ UNCHANGED <<exceptStore, recVars>>

\* subscribing and unsubscribing
NextSubs ==
  \/ \E t \in StoreTasks, r \in StoreRooms, e \in Emails, n \in Names,
        req \in {"ok", "badBody", "noEmail"} :
       SubscribeGet(t, r, e, n, req) /\ UNCHANGED <<exceptStore, recVars>>
  \/ \E t \in StoreTasks, k \in DbConns, ok \in BOOLEAN :
       StoreCreateMeeting(t, k, ok) /\ UNCHANGED <<exceptStore, recVars>>
  \/ \E t \in StoreTasks, k \in DbConns, ok \in BOOLEAN :
       SubscribeUpsert(t, k, ok) /\ UNCHANGED <<exceptStore, recVars>>
  \/ \E r \in StoreRooms, e \in Emails, req \in {"ok", "badBody", "dbError"} :
       unsubscribeEmailHandler(r, e, req) /\ UNCHANGED <<exceptStore, recVars>>

(***************************************************************************)
(* Participant tokens                                                      *)
(***************************************************************************)
\* fmt.Sprintf("%s-%d", req.ParticipantName, n), line 198: the name, a dash and
\* the decimal digits of n. n is not negative, so its digits hold no dash: the
\* string is cut at its last dash into the name and n, and two identities are
\* the same string exactly when both parts are equal.
Identity(name, n) == <<name, n>>

\* getToken, lines 191-216: a body that does not parse is answered 400, a
\* failing ToJWT 500; else a token for the room with the identity made of the
\* name and the number rand.Intn returned (n) is answered
getToken(name, room, n, req) ==
  /\ Len(issued) < MaxTokens
  /\ IF req = "ok"
       THEN /\ issued' = Append(issued, [name |-> name, room |-> room,
                                         identity |-> Identity(name, n)])
            /\ tokenResp' = [code |-> 200, identity |-> Identity(name, n),
                             name |-> name, room |-> room]
       ELSE /\ tokenResp' = [code |-> IF req = "badBody" THEN 400 ELSE 500,
                             identity |-> NoIdentity,
                             name |-> IF req = "badBody" THEN "" ELSE name,
                             room |-> IF req = "badBody" THEN "" ELSE room]
            /\ UNCHANGED issued

InitToken ==
  /\ issued = <<>>
  /\ tokenResp = [code |-> 0, identity |-> NoIdentity, name |-> "", room |-> ""]

NextToken ==
  \E name \in Names, room \in RoomNames, n \in Suffixes,
     req \in {"ok", "badBody", "jwtError"} :
    getToken(name, room, n, req) /\ UNCHANGED exceptToken

\* the requests whose bodies the handlers check: a token request, a schedule
\* request, a subscription, an unsubscription, with fields left out ("" is
\* what BodyParser leaves in a field the body does not have)
NextInput ==
  \/ \E name \in {"Ann", ""}, room \in StoreRooms \cup {""},
        req \in {"ok", "badBody"} :
       getToken(name, room, 0, req) /\ UNCHANGED exceptToken
  \/ \E r \in StoreRooms, req \in {"ok", "badBody", "badDate"} :
       createScheduledMeetingHandler(1, r, req) /\ UNCHANGED exceptSched
  \/ \E t \in StoreTasks, r \in StoreRooms, e \in Emails,
        req \in {"ok", "badBody", "noEmail"} :
       SubscribeGet(t, r, e, "Ann", req) /\ UNCHANGED <<exceptStore, recVars>>
  \/ \E t \in StoreTasks, k \in DbConns, ok \in BOOLEAN :
       StoreCreateMeeting(t, k, ok) /\ UNCHANGED <<exceptStore, recVars>>
  \/ \E t \in StoreTasks, k \in DbConns :
       SubscribeUpsert(t, k, TRUE) /\ UNCHANGED <<exceptStore, recVars>>
  \/ \E r \in StoreRooms, e \in Emails, req \in {"ok", "badBody"} :
       unsubscribeEmailHandler(r, e, req) /\ UNCHANGED <<exceptStore, recVars>>

(***************************************************************************)
(* Host authentication                                                     *)
(***************************************************************************)
\* hmac.New(sha256.New, key) over msg: a value that names the key and the
\* message, so that two MACs are equal only for the same key and message
HmacSha256(key, msg) == [key |-> key, msg |-> msg]

\* bcrypt.GenerateFromPassword / CompareHashAndPassword: the comparison
\* succeeds for the password the hash was made of and for no other
CompareHashAndPassword(hash, password) == hash = <<"bcrypt", password>>

\* json.Marshal of JWTClaims, lines 84-93: the fields in the order of the
\* struct (auth.go 28-33); base64URLEncode and base64URLDecode are inverse
\* to each other and left out
MarshalClaims(claims) == <<claims.user_id, claims.email, claims.name, claims.exp>>

\* json.Unmarshal into JWTClaims, lines 126-129
UnmarshalClaims(payload) ==
  [user_id |-> payload[1], email |-> payload[2], name |-> payload[3],
   exp |-> payload[4]]

\* generateJWT, lines 83-101: header, payload and signature, the three parts
\* of the token string
generateJWT(u, t) ==
  LET payload == MarshalClaims([user_id |-> u, email |-> users[u].email,
                                name |-> users[u].name, exp |-> t + CredTTL])
  IN  <<"HS256", payload, HmacSha256(jwtSecret, <<"HS256", payload>>)>>

\* Mutant of validateJWT: the comparison of Exp with the clock is left out.
validateJWTNoExpiry(parts, t) ==
  IF Len(parts) # 3 THEN "invalid token format"
  ELSE IF parts[3] # HmacSha256(jwtSecret, <<parts[1], parts[2]>>)
    THEN "invalid signature"
  ELSE "ok"

\* validateJWT, lines 104-136, at time t: "ok" or the error
validateJWT(parts, t) ==
  IF Len(parts) # 3 THEN "invalid token format"
  ELSE IF parts[3] # HmacSha256(jwtSecret, <<parts[1], parts[2]>>)
    THEN "invalid signature"
  ELSE IF t > UnmarshalClaims(parts[2]).exp THEN "token expired"
  ELSE "ok"

\* authRequired, lines 154-172: the body of the 401 it answers, or "next"
\* when it calls c.Next()
authRequired(cred, t) ==
  IF cred.scheme # "Bearer" THEN "Unauthorized"
  ELSE IF validateJWT(cred.parts, t) # "ok" THEN "Invalid token"
  ELSE "next"

\* c.Locals after authRequired, lines 167-169
Locals(cred) == UnmarshalClaims(cred.parts[2])

\* The Authorization headers a client may send: none, another scheme, a
\* Bearer token that is not three parts, a token login issued, such a token
\* with its claims changed (another user, a later expiry) under the signature
\* it came with, and a token signed with a key that is not jwtSecret.
Bearer(parts) == [scheme |-> "Bearer", parts |-> parts]

Tampered(tok) ==
  LET c == UnmarshalClaims(tok[2]) IN
    {<<tok[1], MarshalClaims([c EXCEPT !.user_id = u]), tok[3]>> :
       u \in Users \ {c.user_id}}
    \cup {<<tok[1], MarshalClaims([c EXCEPT !.exp = c.exp + CredTTL]), tok[3]>>}

ForgedTokens ==
  {LET payload == MarshalClaims([user_id |-> u, email |-> users[u].email,
                                 name |-> users[u].name, exp |-> authNow + CredTTL])
   IN  <<"HS256", payload, HmacSha256(OtherKey, <<"HS256", payload>>)>> :
   u \in {1}}

Headers ==
  {[scheme |-> "", parts |-> <<>>], [scheme |-> "Basic", parts |-> <<>>],
   Bearer(<<"garbage">>)}
  \cup {Bearer(j.token) : j \in jwts}
  \cup {Bearer(p) : p \in UNION {Tampered(j.token) : j \in jwts}}
  \cup {Bearer(p) : p \in ForgedTokens}

\* the user login issued the presented token to, 0 when login did not issue it
IssuedFor(cred) ==
  IF \E j \in jwts : cred = Bearer(j.token)
    THEN (CHOOSE j \in jwts : cred = Bearer(j.token)).user
    ELSE 0

\* what the claims need of a request to a host-only route: the route, the
\* status code and body authRequired answered (0: it called c.Next()), whether
\* the handler ran, whether the presented token's signature verifies, whether
\* its expiry was in the past, and whom login had issued it to; of a login,
\* the email and password of the request and all of the answer
AuthReply(op, cred, ran) ==
  LET three == cred.scheme = "Bearer" /\ Len(cred.parts) = 3
      sigOk == three /\ cred.parts[3] =
                 HmacSha256(jwtSecret, <<cred.parts[1], cred.parts[2]>>)
  IN  [op |-> op,
       code |-> IF authRequired(cred, authNow) = "next" THEN 0 ELSE 401,
       body |-> IF authRequired(cred, authNow) = "next" THEN ""
                ELSE authRequired(cred, authNow),
       ran |-> ran, sigOk |-> sigOk,
       expired |-> three /\ authNow > UnmarshalClaims(cred.parts[2]).exp,
       issuedFor |-> IssuedFor(cred), id |-> 0, email |-> "", name |-> "",
       token |-> <<>>, reqEmail |-> "", reqPassword |-> ""]

\* Mutant of loginHandler: an unknown email is answered with a body of its own.
loginNamingTheField(email, password, req) ==
  /\ LET found == {u \in Users : users[u].email = email}
         deny(code, body) ==
           /\ authResp' = [NoAuthResp EXCEPT
                !.op = "login", !.code = code, !.body = body,
                !.reqEmail = IF req = "ok" THEN email ELSE "",
                !.reqPassword = IF req = "ok" THEN password ELSE ""]
           /\ UNCHANGED jwts
     IN  IF req # "ok" THEN deny(400, "Invalid request")
         ELSE IF found = {} THEN deny(401, "User not found")
         ELSE LET u == CHOOSE u \in found : TRUE IN
           IF ~CompareHashAndPassword(users[u].password_hash, password)
             THEN deny(401, "Invalid credentials")
             ELSE /\ Cardinality(jwts) < Cardinality(Clients)
                  /\ jwts' = jwts \cup {[token |-> generateJWT(u, authNow), user |-> u]}
                  /\ authResp' = [NoAuthResp EXCEPT
                       !.op = "login", !.code = 200, !.id = u,
                       !.email = users[u].email, !.name = users[u].name,
                       !.token = generateJWT(u, authNow),
                       !.reqEmail = email, !.reqPassword = password]
  /\ UNCHANGED <<authNow, schedVars>>

\* loginHandler, lines 180-215
loginHandler(email, password, req) ==
  /\ LET found == {u \in Users : users[u].email = email}
         deny(code, body) ==
           /\ authResp' = [NoAuthResp EXCEPT
                !.op = "login", !.code = code, !.body = body,
                !.reqEmail = IF req = "ok" THEN email ELSE "",
                !.reqPassword = IF req = "ok" THEN password ELSE ""]
           /\ UNCHANGED jwts
     IN  IF req # "ok" THEN deny(400, "Invalid request")
         ELSE IF found = {} THEN deny(401, "Invalid credentials")
         ELSE LET u == CHOOSE u \in found : TRUE IN
           IF ~CompareHashAndPassword(users[u].password_hash, password)
             THEN deny(401, "Invalid credentials")
             ELSE /\ Cardinality(jwts) < Cardinality(Clients)
                  /\ jwts' = jwts \cup {[token |-> generateJWT(u, authNow), user |-> u]}
                  /\ authResp' = [NoAuthResp EXCEPT
                       !.op = "login", !.code = 200, !.id = u,
                       !.email = users[u].email, !.name = users[u].name,
                       !.token = generateJWT(u, authNow),
                       !.reqEmail = email, !.reqPassword = password]
  /\ UNCHANGED <<authNow, schedVars>>

\* Mutant of meHandler: the name is answered in the place of the email.
meAnsweringNameTwice(cred) ==
  /\ IF authRequired(cred, authNow) = "next"
       THEN authResp' = [AuthReply("me", cred, TRUE) EXCEPT
                           !.code = 200, !.id = Locals(cred).user_id,
                           !.email = Locals(cred).name,
                           !.name = Locals(cred).name]
       ELSE authResp' = AuthReply("me", cred, FALSE)
  /\ UNCHANGED <<authNow, jwts, schedVars>>

\* GET /api/auth/me, main.go 88: authRequired, then meHandler, lines 217-223
meHandler(cred) ==
  /\ IF authRequired(cred, authNow) = "next"
       THEN authResp' = [AuthReply("me", cred, TRUE) EXCEPT
                           !.code = 200, !.id = Locals(cred).user_id,
                           !.email = Locals(cred).email,
                           !.name = Locals(cred).name]
       ELSE authResp' = AuthReply("me", cred, FALSE)
  /\ UNCHANGED <<authNow, jwts, schedVars>>

\* createRoom, main.go 156-180: a body that does not parse is answered 400;
\* else roomClient.CreateRoom allocates the room or fails (500)
createRoom(user, roomName, req, ok) ==
  /\ IF req # "ok"
       THEN /\ resp' = Reply("createRoom", user, 0, 400)
            /\ UNCHANGED lkRooms
       ELSE IF ok
         THEN /\ lkRooms' = lkRooms \cup {[name |-> roomName, by |-> user]}
              /\ resp' = Reply("createRoom", user, 0, 200)
         ELSE /\ resp' = Reply("createRoom", user, 0, 500)
              /\ UNCHANGED lkRooms
  /\ UNCHANGED <<scheduled_meetings, startTask, startOk, cancelOk>>

\* ListScheduledMeetingsByHost: the rows of the host
ListScheduledMeetingsByHost(hostUserID) ==
  {i \in RowIds : scheduled_meetings[i].host_user_id = hostUserID}

\* listScheduledMeetingsHandler, main.go 550-579: reads, changes nothing
listScheduledMeetingsHandler(user) ==
  /\ resp' = [Reply("list", user, 0, 200) EXCEPT
                !.status = IF ListScheduledMeetingsByHost(user) = {} THEN ""
                           ELSE "rows"]
  /\ UNCHANGED <<scheduled_meetings, lkRooms, startTask, startOk, cancelOk>>

\* A host-only route, main.go 88-99: authRequired runs first and the handler
\* runs only when it calls c.Next(); a 401 of authRequired ends the request.
HostRoute(op, cred, handler) ==
  /\ IF authRequired(cred, authNow) = "next"
       THEN /\ authResp' = AuthReply(op, cred, TRUE)
            /\ handler
       ELSE /\ authResp' = AuthReply(op, cred, FALSE)
            /\ UNCHANGED schedVars
  /\ UNCHANGED <<authNow, jwts>>

\* the user id the handlers read from c.Locals("userID"); a header without
\* claims gives none
LocalUser(cred) ==
  IF cred.scheme = "Bearer" /\ Len(cred.parts) = 3
    THEN Locals(cred).user_id ELSE 0

\* time passes
AuthTick ==
  /\ authNow + 1 \in AuthTimes
  /\ authNow' = authNow + 1
  /\ UNCHANGED <<jwts, authResp, schedVars>>

InitAuth ==
  /\ authNow = 0
  /\ jwts = {}
  /\ authResp = NoAuthResp

NextAuth ==
  \/ \E e \in LoginEmails, p \in Passwords, req \in {"ok", "badBody"} :
       loginHandler(e, p, req) /\ UNCHANGED exceptAuth
  \/ AuthTick /\ UNCHANGED exceptAuth
  \/ \E cred \in Headers : meHandler(cred) /\ UNCHANGED exceptAuth
  \/ \E cred \in Headers, ok \in BOOLEAN :
       HostRoute("createRoom", cred,
                 createRoom(LocalUser(cred), "flying-falcon", "ok", ok))
       /\ UNCHANGED exceptAuth
  \/ \E cred \in Headers :
       HostRoute("schedule", cred,
                 createScheduledMeetingHandler(LocalUser(cred), "flying-falcon", "ok"))
       /\ UNCHANGED exceptAuth
  \/ \E cred \in Headers :
       HostRoute("list", cred, listScheduledMeetingsHandler(LocalUser(cred)))
       /\ UNCHANGED exceptAuth
  \/ \E cred \in Headers :
       HostRoute("cancel", cred, cancelScheduledMeetingHandler(LocalUser(cred), 1))
       /\ UNCHANGED exceptAuth
  \/ \E cred \in Headers :
       HostRoute("start", cred, StartCheck(1, LocalUser(cred), 1))
       /\ UNCHANGED exceptAuth
  \/ StartCreateRoom(1, TRUE) /\ UNCHANGED <<authVars, exceptAuth>>
  \/ StartUpdate(1) /\ UNCHANGED <<authVars, exceptAuth>>

(***************************************************************************)
(* Recordings                                                              *)
(***************************************************************************)
\* rows of the meeting in status 'recording'
ActiveRecs(mid) ==
  {i \in DOMAIN recordings :
     recordings[i].meeting_id = mid /\ recordings[i].status = "recording"}

\* GetActiveRecordingByMeeting, part_009 240-264: ... WHERE meeting_id = ? AND
\* status = 'recording' ORDER BY created_at DESC LIMIT 1. created_at counts
\* seconds, so every active row of the latest second may be the one returned.
GetActiveRecordingByMeeting(mid) ==
  {i \in ActiveRecs(mid) :
     \A j \in ActiveRecs(mid) : recordings[j].created_at <= recordings[i].created_at}

\* UpdateRecordingStatus, part_009 267-277: UPDATE recordings SET status = ?
\* ... WHERE egress_id = ?
UpdateRecordingStatus(egressID, status) ==
  [i \in DOMAIN recordings |->
     IF recordings[i].egress_id = egressID
       THEN [recordings[i] EXCEPT !.status = status]
       ELSE recordings[i]]

\* the handler that takes the next request: the idle one with the lowest number
FirstIdleRec(t) ==
  /\ recTask[t].pc = "idle"
  /\ \A u \in RecTasks : u < t => recTask[u].pc # "idle"

InFlightRec(op) == {u \in RecTasks : recTask[u].op = op}

RecReply(op, room, code, status, egress) ==
  [op |-> op, room |-> room, code |-> code, status |-> status,
   egress |-> egress, known |-> GetMeetingByRoom(room) # 0]

\* startRecordingHandler, lines 221-224: GetMeetingByRoom
StartRecordingGet(t, room) ==
  /\ FirstIdleRec(t)
  /\ egressSeq + Cardinality(InFlightRec("start")) < MaxRecordings
  /\ recTask' = [recTask EXCEPT ![t] =
       [IdleRec EXCEPT
          !.pc = IF GetMeetingByRoom(room) # 0 THEN "check" ELSE "create",
          !.op = "start", !.room = room, !.mid = GetMeetingByRoom(room)]]
  /\ UNCHANGED <<meetings, lastInsertRowid, now, recordings, egressSeq,
                 recJobs, recResp>>

\* lines 225-230: CreateMeeting on a connection k of the pool; its failure is
\* answered 500
StartRecordingCreate(t, k, ok) ==
  /\ recTask[t].pc = "create"
  /\ IF ~ok
       THEN /\ recTask' = [recTask EXCEPT ![t] = IdleRec]
            /\ recResp' = RecReply("start", recTask[t].room, 500, "", 0)
            /\ UNCHANGED <<meetings, lastInsertRowid>>
       ELSE /\ recTask' = [recTask EXCEPT
                 ![t].pc = "check",
                 ![t].mid = CreateMeeting(recTask[t].room, k)]
            /\ IF GetMeetingByRoom(recTask[t].room) = 0
                 THEN /\ meetings' = Append(meetings, recTask[t].room)
                      /\ lastInsertRowid' =
                           [lastInsertRowid EXCEPT ![k] = Len(meetings) + 1]
                 ELSE UNCHANGED <<meetings, lastInsertRowid>>
            /\ UNCHANGED recResp
  /\ UNCHANGED <<now, recordings, egressSeq, recJobs>>

\* lines 232-239: an active recording of the meeting (row i) is answered 200
\* "already_recording"; without one the handler goes on
StartRecordingCheck(t, i) ==
  /\ recTask[t].pc = "check"
  /\ IF GetActiveRecordingByMeeting(recTask[t].mid) # {}
       THEN /\ i \in GetActiveRecordingByMeeting(recTask[t].mid)
            /\ recTask' = [recTask EXCEPT ![t] = IdleRec]
            /\ recResp' = RecReply("start", recTask[t].room, 200,
                                   "already_recording", recordings[i].egress_id)
       ELSE /\ i = 0
            /\ recTask' = [recTask EXCEPT ![t].pc = "egress"]
            /\ UNCHANGED recResp
  /\ UNCHANGED <<meetings, lastInsertRowid, now, recordings, egressSeq, recJobs>>

\* lines 241-257: egressClient.StartRoomCompositeEgress; the Room Service
\* starts an egress under a new id, or fails (500)
StartRecordingEgress(t, ok) ==
  /\ recTask[t].pc = "egress"
  /\ IF ok
       THEN /\ egressSeq' = egressSeq + 1
            /\ recTask' = [recTask EXCEPT ![t].pc = "insert",
                                          ![t].egress = egressSeq + 1]
            /\ UNCHANGED recResp
       ELSE /\ recTask' = [recTask EXCEPT ![t] = IdleRec]
            /\ recResp' = RecReply("start", recTask[t].room, 500, "", 0)
            /\ UNCHANGED egressSeq
  /\ UNCHANGED <<meetings, lastInsertRowid, now, recordings, recJobs>>

\* lines 259-272 and CreateRecording, part_009 193-210: the row is inserted in
\* status 'recording' on a connection k of the pool and 200 "recording" is
\* answered; a failing INSERT is answered 500
StartRecordingInsert(t, k, ok) ==
  /\ recTask[t].pc = "insert"
  /\ recTask' = [recTask EXCEPT ![t] = IdleRec]
  /\ IF ok
       THEN /\ recordings' = Append(recordings,
                 [meeting_id |-> recTask[t].mid, egress_id |-> recTask[t].egress,
                  status |-> "recording", created_at |-> now])
            /\ lastInsertRowid' =
                 [lastInsertRowid EXCEPT ![k] = Len(recordings) + 1]
            /\ recResp' = RecReply("start", recTask[t].room, 200, "recording",
                                   recTask[t].egress)
       ELSE /\ recResp' = RecReply("start", recTask[t].room, 500, "", 0)
            /\ UNCHANGED <<recordings, lastInsertRowid>>
  /\ UNCHANGED <<meetings, now, egressSeq, recJobs>>

\* stopRecordingHandler, lines 275-288: a room without meeting and a meeting
\* without active recording are answered 404; else the handler goes on with
\* the active recording (row i)
StopRecordingGet(t, room, i) ==
  /\ FirstIdleRec(t)
  /\ IF GetMeetingByRoom(room) = 0
          \/ GetActiveRecordingByMeeting(GetMeetingByRoom(room)) = {}
       THEN /\ i = 0
            /\ recResp' = RecReply("stop", room, 404, "", 0)
            /\ UNCHANGED recTask
       ELSE /\ i \in GetActiveRecordingByMeeting(GetMeetingByRoom(room))
            /\ recTask' = [recTask EXCEPT ![t] =
                 [IdleRec EXCEPT !.pc = "stopEgress", !.op = "stop",
                                 !.room = room, !.mid = GetMeetingByRoom(room),
                                 !.egress = recordings[i].egress_id]]
            /\ UNCHANGED recResp
  /\ UNCHANGED <<meetings, lastInsertRowid, now, recordings, egressSeq, recJobs>>

\* lines 290-331: egressClient.StopEgress fails (500), or the row goes to
\* 'processing', the goroutine that asks for the batch transcription starts
\* and 200 "processing" is answered
StopRecordingEgress(t, ok) ==
  /\ recTask[t].pc = "stopEgress"
  /\ recTask' = [recTask EXCEPT ![t] = IdleRec]
  /\ IF ok
       THEN /\ recordings' = UpdateRecordingStatus(recTask[t].egress, "processing")
            /\ recJobs' = recJobs \cup {recTask[t].egress}
            /\ recResp' = RecReply("stop", recTask[t].room, 200, "processing",
                                   recTask[t].egress)
       ELSE /\ recResp' = RecReply("stop", recTask[t].room, 500, "", 0)
            /\ UNCHANGED <<recordings, recJobs>>
  /\ UNCHANGED <<meetings, lastInsertRowid, now, egressSeq>>

\* the goroutine of lines 310-323: without aiServiceURL it returns; a failing
\* http.Post sets the row to 'failed'; else nothing more happens here
TranscribeRecording(e, outcome) ==
  /\ e \in recJobs
  /\ recJobs' = recJobs \ {e}
  /\ recordings' = IF outcome = "postError"
                     THEN UpdateRecordingStatus(e, "failed") ELSE recordings
  /\ UNCHANGED <<meetings, lastInsertRowid, now, egressSeq, recTask, recResp>>

\* getRecordingStatusHandler, lines 336-357: a room without meeting is
\* answered 404, a meeting without active recording 200 "no_recording", else
\* the status of the active recording (row i)
getRecordingStatusHandler(room, i) ==
  /\ IF GetMeetingByRoom(room) = 0
       THEN /\ i = 0
            /\ recResp' = RecReply("status", room, 404, "", 0)
       ELSE IF GetActiveRecordingByMeeting(GetMeetingByRoom(room)) = {}
         THEN /\ i = 0
              /\ recResp' = RecReply("status", room, 200, "no_recording", 0)
         ELSE /\ i \in GetActiveRecordingByMeeting(GetMeetingByRoom(room))
              /\ recResp' = RecReply("status", room, 200, recordings[i].status,
                                     recordings[i].egress_id)
  /\ UNCHANGED <<meetings, lastInsertRowid, now, recordings, egressSeq,
                 recTask, recJobs>>

\* the operations that look a room, a meeting or a scheduled meeting up, on
\* rooms and ids that exist and that do not (requests that parse, a database
\* that answers; one request of each kind at a time)
NextLookup ==
  \/ \E r \in StoreRooms :
       createScheduledMeetingHandler(1, r, "ok") /\ UNCHANGED exceptSched
  \/ \E id \in SchedIds :
       cancelScheduledMeetingHandler(1, id) /\ UNCHANGED exceptSched
  \/ \E id \in SchedIds : StartCheck(1, 1, id) /\ UNCHANGED exceptSched
  \/ StartCreateRoom(1, TRUE) /\ UNCHANGED exceptSched
  \/ StartUpdate(1) /\ UNCHANGED exceptSched
  \/ \E r \in StoreRooms : getJoinInfoHandler(r) /\ UNCHANGED exceptSched
  \/ \E r \in StoreRooms : StartRecordingGet(1, r) /\ UNCHANGED exceptRec
  \/ StartRecordingCreate(1, 1, TRUE) /\ UNCHANGED exceptRec
  \/ \E i \in 0..MaxRecordings : StartRecordingCheck(1, i) /\ UNCHANGED exceptRec
  \/ StartRecordingEgress(1, TRUE) /\ UNCHANGED exceptRec
  \/ StartRecordingInsert(1, 1, TRUE) /\ UNCHANGED exceptRec
  \/ \E r \in StoreRooms, i \in 0..MaxRecordings :
       StopRecordingGet(1, r, i) /\ UNCHANGED exceptRec
  \/ StopRecordingEgress(1, TRUE) /\ UNCHANGED exceptRec
  \/ \E r \in StoreRooms, i \in 0..MaxRecordings :
       getRecordingStatusHandler(r, i) /\ UNCHANGED exceptRec
  \/ \E r \in StoreRooms, i \in 0..MaxNotes :
       getNotesHandler(r, i) /\ UNCHANGED <<exceptStore, recVars>>
  \/ \E r \in StoreRooms, e \in Emails :
       unsubscribeEmailHandler(r, e, "ok") /\ UNCHANGED <<exceptStore, recVars>>
  \/ \E r \in StoreRooms :
       getEmailSubscriptionsHandler(r) /\ UNCHANGED <<exceptStore, recVars>>

InitRec ==
  /\ recordings = <<>>
  /\ egressSeq = 0
  /\ recTask = [t \in RecTasks |-> IdleRec]
  /\ recJobs = {}
  /\ recResp = NoRecResp

NextRec ==
  \/ \E t \in RecTasks, r \in StoreRooms :
       StartRecordingGet(t, r) /\ UNCHANGED exceptRec
  \/ \E t \in RecTasks, k \in DbConns, ok \in BOOLEAN :
       StartRecordingCreate(t, k, ok) /\ UNCHANGED exceptRec
  \/ \E t \in RecTasks, i \in 0..MaxRecordings :
       StartRecordingCheck(t, i) /\ UNCHANGED exceptRec
  \/ \E t \in RecTasks, ok \in BOOLEAN :
       StartRecordingEgress(t, ok) /\ UNCHANGED exceptRec
  \/ \E t \in RecTasks, k \in DbConns, ok \in BOOLEAN :
       StartRecordingInsert(t, k, ok) /\ UNCHANGED exceptRec
  \/ \E t \in RecTasks, r \in StoreRooms, i \in 0..MaxRecordings :
       StopRecordingGet(t, r, i) /\ UNCHANGED exceptRec
  \/ \E t \in RecTasks, ok \in BOOLEAN :
       StopRecordingEgress(t, ok) /\ UNCHANGED exceptRec
  \/ \E e \in 1..MaxRecordings, outcome \in {"unset", "postError", "ok"} :
       TranscribeRecording(e, outcome) /\ UNCHANGED exceptRec
  \/ \E r \in StoreRooms, i \in 0..MaxRecordings :
       getRecordingStatusHandler(r, i) /\ UNCHANGED exceptRec
  \/ Tick /\ UNCHANGED <<exceptStore, recVars>>

(***************************************************************************)
(* The notes poller of the meeting page                                    *)
(***************************************************************************)
\* endMeeting, lines 356-365: the page goes to 'processing' and posts
\* end-transcription
endMeeting ==
  /\ pollPc = "off"
  /\ pollPc' = "ending"
  /\ transcriptionStatus' = "processing"
  /\ processingStage' = "Generating notes..."
  /\ UNCHANGED <<attempts, fetches, pollDelay>>

\* endMeeting, lines 366-381: the answer "processing" starts pollForNotes,
\* whose first poll runs at once; any other answer and a throwing fetch end
\* in 'failed'
endMeetingReply(answer) ==
  /\ pollPc = "ending"
  /\ IF answer = "processing"
       THEN /\ pollPc' = "polling"
            /\ processingStage' = "Processing transcript..."
            /\ UNCHANGED transcriptionStatus
       ELSE /\ pollPc' = "off"
            /\ transcriptionStatus' = "failed"
            /\ processingStage' = IF answer = "throws"
                                    THEN "Error ending meeting"
                                    ELSE "Failed to end transcription"
  /\ attempts' = 0
  /\ UNCHANGED <<fetches, pollDelay>>

\* the message shown while waiting, lines 404-410
StageOf(n) ==
  IF n < 10 THEN "Processing transcript..."
  ELSE IF n < 30 THEN "Generating meeting notes..." ELSE "Almost done..."

\* poll, lines 388-424: one fetch of the notes. answer is "notes" (200 with
\* markdown), "empty" (200 without markdown), "notFound" (404) or "throws"
\* (fetch or res.json() throws).
poll(answer) ==
  /\ pollPc = "polling"
  /\ fetches' = fetches + 1
  /\ IF answer = "notes"
       THEN /\ transcriptionStatus' = "completed"
            /\ processingStage' = ""
            /\ pollPc' = "done"
            /\ UNCHANGED <<attempts, pollDelay>>
       ELSE /\ attempts' = attempts + 1
            /\ IF attempts + 1 < maxAttempts
                 THEN /\ pollPc' = "waiting"
                      /\ pollDelay' = 5000
                      /\ processingStage' = IF answer = "throws"
                                              THEN processingStage
                                              ELSE StageOf(attempts + 1)
                      /\ UNCHANGED transcriptionStatus
                 ELSE /\ pollPc' = "done"
                      /\ IF answer = "throws"
                           THEN UNCHANGED <<transcriptionStatus, processingStage>>
                           ELSE /\ transcriptionStatus' = "failed"
                                /\ processingStage' = "Timed out waiting for notes"
                      /\ UNCHANGED pollDelay

\* the timer of setTimeout(poll, 5000) fires
pollTimer ==
  /\ pollPc = "waiting"
  /\ pollPc' = "polling"
  /\ UNCHANGED <<attempts, fetches, pollDelay, transcriptionStatus,
                 processingStage>>

\* endMeeting, lines 356-365, with the rows meeting_notes holds at that moment
\* kept for reference
endMeetingRequest ==
  /\ endMeeting
  /\ endedAt' = Len(meeting_notes)
  /\ UNCHANGED <<notes, shownRow>>

\* poll, lines 388-424, against getNotesHandler, main.go 704-713: the fetch
\* of the room's notes is answered with the latest row of the room (404 when
\* it has none); a row with markdown is shown as the completed result
pollNotes(room, i, throws) ==
  LET mid == GetMeetingByRoom(room)
      answer == IF throws THEN "throws"
                ELSE IF mid = 0 \/ NotesOf(mid) = {} THEN "notFound"
                ELSE IF meeting_notes[i].body = "" THEN "empty" ELSE "notes"
  IN /\ getNotesHandler(room, i)
     /\ poll(answer)
     /\ IF answer = "notes"
          THEN /\ notes' = meeting_notes[i].body
               /\ shownRow' = i
          ELSE UNCHANGED <<notes, shownRow>>
     /\ UNCHANGED endedAt

InitResult ==
  /\ notes = ""
  /\ shownRow = 0
  /\ endedAt = 0

\* the meeting page ending a meeting while notes are saved for its room, one
\* save at a time
NextResult ==
  \/ \E r \in StoreRooms, b \in Bodies :
       SaveNotesGet(1, r, b, TRUE) /\ UNCHANGED <<exceptStore, recVars>>
  \/ StoreCreateMeeting(1, 1, TRUE) /\ UNCHANGED <<exceptStore, recVars>>
  \/ \E ok \in BOOLEAN :
       SaveNotesInsert(1, 1, ok) /\ UNCHANGED <<exceptStore, recVars>>
  \/ Tick /\ UNCHANGED <<exceptStore, recVars>>
  \/ endMeetingRequest /\ UNCHANGED <<exceptResult, storeVars, meetings, lastInsertRowid>>
  \/ \E answer \in {"processing", "not_found", "throws"} :
       endMeetingReply(answer) /\ UNCHANGED exceptPoll
  \/ \E r \in StoreRooms, i \in 0..MaxNotes, throws \in BOOLEAN :
       pollNotes(r, i, throws) /\ UNCHANGED exceptResult
  \/ pollTimer /\ UNCHANGED exceptPoll

InitPoll ==
  /\ pollPc = "off"
  /\ attempts = 0
  /\ fetches = 0
  /\ pollDelay = 0
  /\ transcriptionStatus = "transcribing"
  /\ processingStage = ""

NextPoll ==
  \/ endMeeting /\ UNCHANGED exceptPoll
  \/ \E answer \in {"processing", "not_found", "throws"} :
       endMeetingReply(answer) /\ UNCHANGED exceptPoll
  \/ \E answer \in {"notes", "empty", "notFound", "throws"} :
       poll(answer) /\ UNCHANGED exceptPoll
  \/ pollTimer /\ UNCHANGED exceptPoll

(***************************************************************************)
(* The message the ingestion endpoint builds                               *)
(***************************************************************************)
\* boolToString, lines 443-448
boolToString(b) == IF b THEN "true" ELSE "false"

\* Mutant of broadcastJSON: the double quote and the backslash of a field are
\* escaped, as json.Marshal does.
RECURSIVE Escaped(_)
Escaped(str) ==
  IF str = <<>> THEN <<>>
  ELSE (IF Head(str) \in {Quote, Backslash} THEN <<Backslash, Head(str)>>
        ELSE <<Head(str)>>) \o Escaped(Tail(str))

broadcastJSONEscaped(msg) ==
  <<"{", Quote, "speaker", Quote, ":", Quote>> \o Escaped(msg.speaker)
    \o <<Quote, ",", Quote, "text", Quote, ":", Quote>> \o Escaped(msg.text)
    \o <<Quote, ",", Quote, "is_final", Quote, ":", boolToString(msg.is_final)>>
    \o <<",", Quote, "timestamp", Quote, ":", Quote>> \o Escaped(msg.timestamp)
    \o <<Quote, "}">>

\* line 437: the message is the concatenation of literal pieces and the
\* fields as they came. A message is a sequence of characters; the names of
\* the keys and the words true and false stand for their letters.
broadcastJSON(msg) ==
  <<"{", Quote, "speaker", Quote, ":", Quote>> \o msg.speaker
    \o <<Quote, ",", Quote, "text", Quote, ":", Quote>> \o msg.text
    \o <<Quote, ",", Quote, "is_final", Quote, ":", boolToString(msg.is_final)>>
    \o <<",", Quote, "timestamp", Quote, ":", Quote>> \o msg.timestamp
    \o <<Quote, "}">>

\* What a subscriber's JSON.parse makes of a message. A string literal from
\* position i on (behind its opening quote): the characters up to the closing
\* quote, a backslash taking the quote or backslash behind it.
RECURSIVE ScanString(_, _, _)
ScanString(s, i, acc) ==
  IF i > Len(s) THEN [ok |-> FALSE, val |-> <<>>, next |-> i]
  ELSE IF s[i] = Quote THEN [ok |-> TRUE, val |-> acc, next |-> i + 1]
  ELSE IF s[i] = Backslash
    THEN IF i + 1 <= Len(s) /\ s[i + 1] \in {Quote, Backslash}
           THEN ScanString(s, i + 2, Append(acc, s[i + 1]))
           ELSE [ok |-> FALSE, val |-> <<>>, next |-> i]
  ELSE ScanString(s, i + 1, Append(acc, s[i]))

\* a value from position i on: a string literal, true or false
ScanValue(s, i) ==
  IF i > Len(s) THEN [ok |-> FALSE, val |-> <<>>, next |-> i]
  ELSE IF s[i] = Quote THEN ScanString(s, i + 1, <<>>)
  ELSE IF s[i] \in {"true", "false"}
    THEN [ok |-> TRUE, val |-> (s[i] = "true"), next |-> i + 1]
  ELSE [ok |-> FALSE, val |-> <<>>, next |-> i]

\* the members of an object from position i on; obj holds, as pairs, the
\* members read so far
RECURSIVE ScanMembers(_, _, _)
ScanMembers(s, i, obj) ==
  IF i > Len(s) \/ s[i] # Quote THEN [ok |-> FALSE, obj |-> {}]
  ELSE LET key == ScanString(s, i + 1, <<>>) IN
    IF ~key.ok \/ key.next > Len(s) \/ s[key.next] # ":"
      THEN [ok |-> FALSE, obj |-> {}]
    ELSE LET v == ScanValue(s, key.next + 1)
             rest == {m \in obj : m[1] # key.val} \cup {<<key.val, v.val>>}
         IN  IF ~v.ok \/ v.next > Len(s) THEN [ok |-> FALSE, obj |-> {}]
             ELSE IF s[v.next] = "}"
               THEN [ok |-> v.next = Len(s), obj |-> rest]
             ELSE IF s[v.next] = ","
               THEN ScanMembers(s, v.next + 1, rest)
             ELSE [ok |-> FALSE, obj |-> {}]

\* JSON.parse of a message: whether it is an object, and its members (of a
\* key that comes twice the last one counts)
ParseJSON(s) ==
  IF Len(s) < 2 \/ s[1] # "{" THEN [ok |-> FALSE, obj |-> {}]
  ELSE ScanMembers(s, 2, {})

\* receiveTranscriptHandler, lines 431-441, at the level of the bytes: a body
\* that does not parse is answered 400; else the message is built and handed
\* to broadcastToRoom, and 200 is answered
receiveTranscriptBody(msg, bodyOk) ==
  wire' = IF bodyOk
            THEN [code |-> 200, msg |-> msg, bytes |-> broadcastJSON(msg),
                  published |-> TRUE]
            ELSE [code |-> 400, msg |-> <<>>, bytes |-> <<>>,
                  published |-> FALSE]

InitWire == wire = NoWire

NextWire ==
  \E speaker \in StringsUpTo(1), text \in StringsUpTo(MaxTextLen),
     is_final \in BOOLEAN, timestamp \in {<<>>, <<"a">>}, bodyOk \in BOOLEAN :
    receiveTranscriptBody([speaker |-> speaker, text |-> text,
                           is_final |-> is_final, timestamp |-> timestamp],
                          bodyOk)
      /\ UNCHANGED exceptWire

(***************************************************************************)
(* Transcript-stream component: connect, reconnection, cleanup             *)
(***************************************************************************)
\* AuthContext.tsx 95
MAX_RETRIES == 5

Min(a, b) == IF a < b THEN a ELSE b

\* line 152: Math.min(1000 * Math.pow(2, retryCountRef.current), 30000)
Delay(n) == Min(1000 * 2^n, 30000)

NoReconEv == [kind |-> "none", n |-> 0, added |-> {}, room |-> ""]

\* setConnected / setReconnecting: a state update of an unmounted component
\* is dropped
SetState(old, new) == IF mounted THEN new ELSE old

\* ws.close(): a socket that is connecting or open starts closing, its close
\* event comes later; a socket that is closing or closed is left as it is
Close(socks, id) ==
  {IF s.id = id /\ s.state \in {"connecting", "open"}
     THEN [s EXCEPT !.state = "closing"] ELSE s : s \in socks}

\* connect, lines 113-121: the socket of wsRef is closed and a new one is
\* constructed for the roomName of the closure and stored in wsRef (socks:
\* the sockets as the caller left them)
connect(room, socks) ==
  /\ created < MaxSockets
  /\ sockets' = Close(socks, wsRef)
                  \cup {[id |-> created + 1, room |-> room, state |-> "connecting"]}
  /\ created' = created + 1
  /\ wsRef' = created + 1

\* clearTimeout(reconnectTimeoutRef.current), lines 174-176: a timer that has
\* fired or was cleared is not there to clear
ClearTimeout == {t \in timers : t.id # reconnectTimeout}

\* the effect of lines 170-172 at mount
mount(room) ==
  /\ ~mounted /\ created = 0
  /\ connect(room, sockets)
  /\ mounted' = TRUE
  /\ roomNameProp' = room
  /\ reconEv' = [kind |-> "mount", n |-> retryCount, added |-> {}, room |-> room]
  /\ UNCHANGED <<retryCount, reconnectTimeout, timers, connected, reconnecting>>

\* the roomName prop changes: connect is a new callback (line 168), so the
\* cleanup of lines 173-180 runs and then the effect with the new connect
changeRoom(room) ==
  /\ mounted /\ room # roomNameProp
  /\ timers' = ClearTimeout
  /\ connect(room, Close(sockets, wsRef))
  /\ roomNameProp' = room
  /\ reconEv' = [kind |-> "room", n |-> retryCount, added |-> {}, room |-> room]
  /\ UNCHANGED <<mounted, retryCount, reconnectTimeout, connected, reconnecting>>

\* the component unmounts: the cleanup of lines 173-180
unmount ==
  /\ mounted
  /\ mounted' = FALSE
  /\ timers' = ClearTimeout
  /\ sockets' = Close(sockets, wsRef)
  /\ reconEv' = [kind |-> "unmount", n |-> retryCount, added |-> {}, room |-> ""]
  /\ UNCHANGED <<roomNameProp, created, wsRef, retryCount, reconnectTimeout,
                 connected, reconnecting>>

\* ws.onopen, lines 123-128: the connection is established
onopen(s) ==
  /\ s \in sockets /\ s.state = "connecting"
  /\ sockets' = (sockets \ {s}) \cup {[s EXCEPT !.state = "open"]}
  /\ connected' = SetState(connected, TRUE)
  /\ reconnecting' = SetState(reconnecting, FALSE)
  /\ retryCount' = 0
  /\ reconEv' = [kind |-> "open", n |-> retryCount, added |-> {}, room |-> ""]
  /\ UNCHANGED <<mounted, roomNameProp, created, wsRef, reconnectTimeout, timers>>

\* ws.onclose, lines 145-163: the close event of a socket (the connection
\* failed, the server or the network closed it, or a close() has completed)
onclose(s) ==
  /\ s \in sockets
  /\ sockets' = sockets \ {s}
  /\ connected' = SetState(connected, FALSE)
  /\ IF retryCount < MAX_RETRIES
       THEN /\ reconnecting' = SetState(reconnecting, TRUE)
            /\ timers' = timers \cup
                 {[id |-> s.id, room |-> s.room, delay |-> Delay(retryCount)]}
            /\ reconnectTimeout' = s.id
            /\ reconEv' = [kind |-> "close", n |-> retryCount,
                           added |-> {Delay(retryCount)}, room |-> ""]
       ELSE /\ reconnecting' = SetState(reconnecting, FALSE)
            /\ reconEv' = [kind |-> "close", n |-> retryCount, added |-> {},
                           room |-> ""]
            /\ UNCHANGED <<timers, reconnectTimeout>>
  /\ UNCHANGED <<mounted, roomNameProp, created, wsRef, retryCount>>

\* the callback of lines 155-158 runs: one more retry, with the connect of
\* the closure that set the timer
reconnectTimer(t) ==
  /\ t \in timers
  /\ timers' = timers \ {t}
  /\ retryCount' = retryCount + 1
  /\ connect(t.room, sockets)
  /\ reconEv' = [kind |-> "timer", n |-> retryCount, added |-> {}, room |-> t.room]
  /\ UNCHANGED <<mounted, roomNameProp, reconnectTimeout, connected, reconnecting>>

InitRecon ==
  /\ mounted = FALSE
  /\ roomNameProp = ""
  /\ sockets = {}
  /\ created = 0
  /\ wsRef = 0
  /\ retryCount = 0
  /\ reconnectTimeout = 0
  /\ timers = {}
  /\ connected = FALSE
  /\ reconnecting = FALSE
  /\ reconEv = NoReconEv

\* the component is mounted for one room and may be moved to the other, once
NextRecon ==
  \/ mount("flying-falcon") /\ UNCHANGED exceptRecon
  \/ changeRoom("jumping-tiger") /\ UNCHANGED exceptRecon
  \/ unmount /\ UNCHANGED exceptRecon
  \/ \E s \in sockets : onopen(s) /\ UNCHANGED exceptRecon
  \/ \E s \in sockets : onclose(s) /\ UNCHANGED exceptRecon
  \/ \E t \in timers : reconnectTimer(t) /\ UNCHANGED exceptRecon

(***************************************************************************)
(* Auth context of the front end: AuthProvider                             *)
(***************************************************************************)
NoJwt == <<"", 0>>

\* checkAuth, lines 35-53: the answer of GET /api/auth/me to the check started
\* at mount for the token found in localStorage. answer is "ok" (the user it
\* names), "notOk" (a status other than 2xx) or "throws"
checkAuthReply(answer) ==
  /\ checkPc = "inflight"
  /\ checkPc' = "done"
  /\ loading' = FALSE
  /\ IF answer = "ok"
       THEN /\ authUser' = checkToken[2]
            /\ UNCHANGED <<authToken, boom_token>>
       ELSE /\ boom_token' = NoJwt
            /\ authToken' = NoJwt
            /\ UNCHANGED authUser
  /\ UNCHANGED <<loginsInFlight, loggedOut, checkToken>>

\* login, lines 55-60: the request is sent
loginCall(u) ==
  /\ checkPc # "unmounted"
  /\ u \notin loginsInFlight
  /\ loginsInFlight' = loginsInFlight \cup {u}
  /\ loggedOut' = FALSE
  /\ UNCHANGED <<authUser, authToken, boom_token, loading, checkPc,
                 checkToken>>

\* login, lines 62-70: the answer; a status other than 2xx throws, else the
\* token is stored and token and user are set
loginReply(u, ok) ==
  /\ u \in loginsInFlight
  /\ loginsInFlight' = loginsInFlight \ {u}
  /\ IF ok
       THEN /\ boom_token' = <<"jwt", u>>
            /\ authToken' = <<"jwt", u>>
            /\ authUser' = u
       ELSE UNCHANGED <<authUser, authToken, boom_token>>
  /\ UNCHANGED <<loading, checkPc, loggedOut, checkToken>>

\* logout, lines 73-77
logout ==
  /\ checkPc # "unmounted"
  /\ boom_token' = NoJwt
  /\ authToken' = NoJwt
  /\ authUser' = 0
  /\ loggedOut' = TRUE
  /\ UNCHANGED <<loading, checkPc, loginsInFlight, checkToken>>

\* lines 23-33: the first render and its effect; localStorage holds a token
\* of an earlier session (stored) or none
AuthProvider(stored) ==
  /\ checkPc = "unmounted"
  /\ boom_token' = stored
  /\ checkToken' = stored
  /\ authToken' = stored
  /\ checkPc' = IF stored # NoJwt THEN "inflight" ELSE "none"
  /\ loading' = (stored # NoJwt)
  /\ UNCHANGED <<authUser, loginsInFlight, loggedOut>>

InitCtx ==
  /\ boom_token = NoJwt
  /\ checkToken = NoJwt
  /\ authToken = NoJwt
  /\ authUser = 0
  /\ checkPc = "unmounted"
  /\ loading = TRUE
  /\ loginsInFlight = {}
  /\ loggedOut = FALSE

NextCtx ==
  \/ \E stored \in {NoJwt} \cup {<<"jwt", u>> : u \in Users} :
       AuthProvider(stored) /\ UNCHANGED exceptCtx
  \/ \E answer \in {"ok", "notOk", "throws"} :
       checkAuthReply(answer) /\ UNCHANGED exceptCtx
  \/ \E u \in Users : loginCall(u) /\ UNCHANGED exceptCtx
  \/ \E u \in Users, ok \in BOOLEAN : loginReply(u, ok) /\ UNCHANGED exceptCtx
  \/ logout /\ UNCHANGED exceptCtx

(***************************************************************************)
(* Join page: join-info fetch, polling, entering the room                  *)
(***************************************************************************)
\* the room of the page's URL
JoinRoomName == "flying-falcon"

NoAnswer == [kind |-> "none", code |-> 0, status |-> "", started |-> FALSE]

\* the effect of lines 27-44 as it stands after meeting became m: it re-runs
\* when meeting?.status has changed, clearing the interval of the run before
\* and setting one of 5000 ms only for status scheduled
PollingEffect(m) ==
  IF m = joinMeeting THEN interval
  ELSE IF m = "scheduled" THEN 5000 ELSE 0

\* lines 96 and 71-93: what the page renders
isActive == joinMeeting = "active"
FormShown == ~joinLoading /\ joinError = ""

\* fetchMeetingInfo, lines 46-48, and the interval callback, lines 31-33: a
\* GET /api/join/:room reaches getJoinInfoHandler, or fails on the way
\* (kind "initial" for the fetch at mount, "poll" for a tick of the interval)
fetchJoinInfo(kind, reaches) ==
  /\ IF kind = "initial"
       THEN joinLoading /\ answers = {} /\ applied = NoAnswer
       ELSE interval # 0 /\ Cardinality(answers) < 2
  /\ IF reaches
       THEN /\ getJoinInfoHandler(JoinRoomName)
            /\ answers' = answers \cup
                 {[kind |-> kind, code |-> resp'.code, status |-> resp'.status,
                   started |-> resp'.started]}
       ELSE /\ answers' = answers \cup
                 {[kind |-> kind, code |-> 0, status |-> "", started |-> FALSE]}
            /\ UNCHANGED schedVars
  /\ UNCHANGED <<joinMeeting, joinName, joinLoading, joinError, interval,
                 entered, applied>>

\* fetchMeetingInfo, lines 49-62: the answer to the fetch at mount
fetchMeetingInfoReply(a) ==
  /\ a \in answers /\ a.kind = "initial"
  /\ entered = ""
  /\ answers' = answers \ {a}
  /\ applied' = a
  /\ joinLoading' = FALSE
  /\ IF a.code = 200
       THEN /\ joinMeeting' = a.status
            /\ interval' = PollingEffect(a.status)
            /\ UNCHANGED joinError
       ELSE /\ joinError' = IF a.code = 0 THEN "Failed to load meeting info"
                                          ELSE "Meeting not found"
            /\ UNCHANGED <<joinMeeting, interval>>
  /\ UNCHANGED <<joinName, entered>>

\* lines 34-40: the answer to a fetch of the interval; one that is not ok and
\* a fetch that threw are ignored (the answers that come after the page was
\* left change nothing any more and are not followed)
pollReply(a) ==
  /\ a \in answers /\ a.kind = "poll"
  /\ entered = ""
  /\ answers' = answers \ {a}
  /\ applied' = a
  /\ IF a.code = 200
       THEN /\ joinMeeting' = a.status
            /\ interval' = PollingEffect(a.status)
       ELSE UNCHANGED <<joinMeeting, interval>>
  /\ UNCHANGED <<joinName, joinLoading, joinError, entered>>

\* line 153: the visitor types a name
setName(n) ==
  /\ FormShown
  /\ joinName' = n
  /\ UNCHANGED <<joinMeeting, joinLoading, joinError, interval, answers,
                 entered, applied>>

\* Mutant of joinRoom: the button and the Enter key work whatever the status.
joinRoomAnyStatus ==
  /\ FormShown
  /\ joinName # ""
  /\ entered = ""
  /\ entered' = joinMeeting
  /\ interval' = 0
  /\ UNCHANGED <<joinMeeting, joinName, joinLoading, joinError, answers, applied>>

\* joinRoom, lines 65-69, reached from the button of lines 161-168 or the
\* Enter key of line 156, both there only while isActive; navigating away
\* unmounts the page, whose interval is cleared (line 43)
joinRoom ==
  /\ FormShown
  /\ isActive
  /\ joinName # ""
  /\ entered = ""
  /\ entered' = joinMeeting
  /\ interval' = 0
  /\ UNCHANGED <<joinMeeting, joinName, joinLoading, joinError, answers, applied>>

InitJoin ==
  /\ joinMeeting = "null"
  /\ joinName = ""
  /\ joinLoading = TRUE
  /\ joinError = ""
  /\ interval = 0
  /\ answers = {}
  /\ entered = ""
  /\ applied = NoAnswer

\* the page of one room while its host schedules, starts and cancels
NextJoin ==
  \/ \E r \in RoomNames :
       createScheduledMeetingHandler(1, r, "ok") /\ UNCHANGED <<exceptJoin, joinVars>>
  \/ \E id \in SchedIds :
       cancelScheduledMeetingHandler(1, id) /\ UNCHANGED <<exceptJoin, joinVars>>
  \/ \E id \in SchedIds : StartCheck(1, 1, id) /\ UNCHANGED <<exceptJoin, joinVars>>
  \/ \E ok \in BOOLEAN : StartCreateRoom(1, ok) /\ UNCHANGED <<exceptJoin, joinVars>>
  \/ StartUpdate(1) /\ UNCHANGED <<exceptJoin, joinVars>>
  \/ \E kind \in {"initial", "poll"}, reaches \in BOOLEAN :
       fetchJoinInfo(kind, reaches) /\ UNCHANGED exceptJoin
  \/ \E a \in answers : fetchMeetingInfoReply(a) /\ UNCHANGED <<exceptJoin, schedVars>>
  \/ \E a \in answers : pollReply(a) /\ UNCHANGED <<exceptJoin, schedVars>>
  \/ \E n \in {"", "Kim"} : setName(n) /\ UNCHANGED <<exceptJoin, schedVars>>
  \/ joinRoom /\ UNCHANGED <<exceptJoin, schedVars>>

(***************************************************************************)
(* Virtual-background hook                                                 *)
(***************************************************************************)
\* lib/backgrounds.ts 11-24: none, two blurs and a colour
BACKGROUND_OPTIONS == <<"none", "blur-light", "blur-medium", "color-navy">>

OptionIds == {BACKGROUND_OPTIONS[i] : i \in DOMAIN BACKGROUND_OPTIONS}

TypeOf(id) ==
  IF id = "none" THEN "none"
  ELSE IF id \in {"blur-light", "blur-medium"} THEN "blur" ELSE "color"

\* lines 21-32: the option saved, or the first option
InitialBackground(saved) == IF saved \in OptionIds THEN saved ELSE BACKGROUND_OPTIONS[1]

\* lines 65-69 and 72-97 after the old processor is out of the way: option
\* none ends the call, any other goes on to setProcessor
AfterStop(option) ==
  IF TypeOf(option) = "none"
    THEN /\ currentBackground' = option
         /\ savedBackground' = option
         /\ isApplying' = FALSE
         /\ applyPc' = "idle"
         /\ completed' = "success"
    ELSE /\ applyPc' = "setting"
         /\ UNCHANGED <<currentBackground, savedBackground, isApplying, completed>>

\* applyBackground, lines 48-63: the call, by the user or by the effect of
\* lines 113-122
applyBackground(option) ==
  /\ applyPc = "idle"
  /\ applyOption' = option
  /\ IF ~videoTrack
       THEN /\ vbError' = "No video track available"
            /\ completed' = "noTrack"
            /\ UNCHANGED <<currentBackground, savedBackground, isApplying, applyPc>>
       ELSE /\ vbError' = ""
            /\ IF currentProcessor # "null"
                 THEN /\ isApplying' = TRUE
                      /\ applyPc' = "stopping"
                      /\ UNCHANGED <<currentBackground, savedBackground, completed>>
                 ELSE IF TypeOf(option) = "none"
                   THEN AfterStop(option)
                   ELSE /\ isApplying' = TRUE
                        /\ AfterStop(option)
  /\ UNCHANGED <<videoTrack, trackProcessor, currentProcessor, lateSet>>

\* lines 60-63: videoTrack.stopProcessor() returns or throws
stopProcessorReturns(ok) ==
  /\ applyPc = "stopping"
  /\ IF ok
       THEN /\ trackProcessor' = "none"
            /\ currentProcessor' = "null"
            /\ AfterStop(applyOption)
            /\ UNCHANGED vbError
       ELSE /\ vbError' = "Failed to apply background"
            /\ isApplying' = FALSE
            /\ applyPc' = "idle"
            /\ completed' = "failure"
            /\ UNCHANGED <<trackProcessor, currentProcessor, currentBackground,
                           savedBackground>>
  /\ UNCHANGED <<videoTrack, applyOption, lateSet>>

\* lines 89-106: the race of videoTrack.setProcessor with the timer of
\* 10000 ms is over: setProcessor resolved ("ok"), rejected ("failure"), or
\* the timer won ("timeout") and setProcessor is still running
setProcessorReturns(outcome) ==
  /\ applyPc = "setting"
  /\ applyPc' = "idle"
  /\ isApplying' = FALSE
  /\ IF outcome = "ok"
       THEN /\ trackProcessor' = applyOption
            /\ currentProcessor' = applyOption
            /\ currentBackground' = applyOption
            /\ savedBackground' = applyOption
            /\ completed' = "success"
            /\ UNCHANGED <<vbError, lateSet>>
       ELSE /\ vbError' = IF outcome = "timeout"
                            THEN "Background processor timed out"
                            ELSE "Failed to apply background"
            /\ completed' = outcome
            /\ lateSet' = IF outcome = "timeout" THEN applyOption ELSE lateSet
            /\ UNCHANGED <<trackProcessor, currentProcessor, currentBackground,
                           savedBackground>>
  /\ UNCHANGED <<videoTrack, applyOption>>

\* clearBackground, lines 37-46: the processor is taken off the track; the
\* background named in the state stays (the state is then no longer the one
\* an applyBackground call left)
clearBackground(ok) ==
  /\ applyPc = "idle"
  /\ videoTrack
  /\ IF ok
       THEN /\ trackProcessor' = "none"
            /\ currentProcessor' = "null"
            /\ completed' = ""
       ELSE UNCHANGED <<trackProcessor, currentProcessor, completed>>
  /\ UNCHANGED <<videoTrack, currentBackground, isApplying, vbError,
                 savedBackground, applyPc, applyOption, lateSet>>

\* a setProcessor left behind by the timeout resolves after all
lateSetProcessor ==
  /\ lateSet # ""
  /\ applyPc = "idle"
  /\ trackProcessor' = lateSet
  /\ lateSet' = ""
  /\ UNCHANGED <<videoTrack, currentBackground, currentProcessor, isApplying,
                 vbError, savedBackground, applyPc, applyOption, completed>>

\* the video track becomes available and the effect of lines 113-122 runs: a
\* saved blur is applied (applyBackground catches what it throws, so the
\* catch of line 115 has nothing to catch)
trackAvailable ==
  /\ ~videoTrack
  /\ applyPc = "idle"
  /\ videoTrack' = TRUE
  /\ IF TypeOf(currentBackground) = "blur" /\ currentProcessor = "null"
       THEN /\ applyOption' = currentBackground
            /\ vbError' = ""
            /\ isApplying' = TRUE
            /\ applyPc' = "setting"
       ELSE UNCHANGED <<applyOption, vbError, isApplying, applyPc>>
  /\ UNCHANGED <<trackProcessor, currentBackground, currentProcessor,
                 savedBackground, lateSet, completed>>

\* lines 21-35: the first render, with any saved preference
useVirtualBackground(saved) ==
  /\ applyPc = "unmounted"
  /\ applyPc' = "idle"
  /\ savedBackground' = saved
  /\ currentBackground' = InitialBackground(saved)
  /\ UNCHANGED <<videoTrack, trackProcessor, currentProcessor, isApplying,
                 vbError, applyOption, lateSet, completed>>

InitVb ==
  /\ savedBackground = ""
  /\ currentBackground = "none"
  /\ videoTrack = FALSE
  /\ trackProcessor = "none"
  /\ currentProcessor = "null"
  /\ isApplying = FALSE
  /\ vbError = ""
  /\ applyPc = "unmounted"
  /\ applyOption = "none"
  /\ lateSet = ""
  /\ completed = ""

NextVb ==
  \/ \E saved \in OptionIds \cup {""} :
       useVirtualBackground(saved) /\ UNCHANGED exceptVb
  \/ \E option \in OptionIds : applyBackground(option) /\ UNCHANGED exceptVb
  \/ \E ok \in BOOLEAN : stopProcessorReturns(ok) /\ UNCHANGED exceptVb
  \/ \E outcome \in {"ok", "failure", "timeout"} :
       setProcessorReturns(outcome) /\ UNCHANGED exceptVb
  \/ \E ok \in BOOLEAN : clearBackground(ok) /\ UNCHANGED exceptVb
  \/ lateSetProcessor /\ UNCHANGED exceptVb
  \/ trackAvailable /\ UNCHANGED exceptVb

Init ==
  /\ InitSched /\ InitHub /\ InitMeet /\ InitStore /\ InitToken /\ InitAuth
  /\ InitRec /\ InitPoll /\ InitWire /\ InitResult /\ InitRecon /\ InitCtx /\ InitJoin
  /\ InitVb

SpecSched == Init /\ [][NextSched]_vars

SpecHub == Init /\ [][NextHub]_vars

SpecMeet == Init /\ [][NextMeet]_vars

SpecTranscribe == Init /\ [][NextTranscribe]_vars

SpecNotes == Init /\ [][NextNotes]_vars

SpecMail == Init /\ [][NextMail]_vars

SpecSubs == Init /\ [][NextSubs]_vars

SpecToken == Init /\ [][NextToken]_vars

SpecAuth == Init /\ [][NextAuth]_vars

SpecRec == Init /\ [][NextRec]_vars

SpecWrite == Init /\ [][NextWrite]_vars

SpecResult == Init /\ [][NextResult]_vars

SpecRecon == Init /\ [][NextRecon]_vars

SpecCtx == Init /\ [][NextCtx]_vars

SpecJoin == Init /\ [][NextJoin]_vars

SpecVb == Init /\ [][NextVb]_vars

\* every handler that can take a step by itself takes one in the end (the Go
\* scheduler runs every runnable goroutine); what peers and the Agent do is
\* left to them
SpecStall ==
  Init /\ [][NextStall]_vars /\ \A t \in Tasks : WF_vars(StallStep(t))

SpecWire == Init /\ [][NextWire]_vars

SpecLookup == Init /\ [][NextLookup]_vars

SpecInput == Init /\ [][NextInput]_vars

SpecUpstream == Init /\ [][NextUpstream]_vars

SpecPoll == Init /\ [][NextPoll]_vars

(***************************************************************************)
(* Properties of the relay hub                                             *)
(***************************************************************************)
\* the broadcast of event id has called WriteMessage on connection c
Attempted(c, id) == \E i \in DOMAIN wlog[c] : wlog[c][i].id = id
\* ... and the write went through
Delivered(c, id) ==
  \E i \in DOMAIN wlog[c] : wlog[c][i].id = id /\ wlog[c][i].ok
\* ... and the write returned an error
Failed(c, id) ==
  \E i \in DOMAIN wlog[c] : wlog[c][i].id = id /\ ~wlog[c][i].ok

\* C2: a publish to a room with K registered subscribers attempts a write to
\* each of the K. While a broadcast ranges over the room, the subscribers of the
\* room are exactly those it began with, each of them is either still to be
\* visited or has had its write attempted (whether the write failed or not),
\* no connection is written twice, and the loop ends only when none is left;
\* every publish that is answered is answered 200.
C2_PublishAttemptsAll ==
  /\ \A t \in Tasks :
       pc[t] = "iter" =>
         /\ snapshot[t] = Subs(events[cur[t]].room)
         /\ todo[t] \subseteq snapshot[t]
         /\ \A c \in snapshot[t] : c \in todo[t] <=> ~Attempted(c, cur[t])
  /\ \A c \in Conns : \A i, j \in DOMAIN wlog[c] :
       wlog[c][i].id = wlog[c][j].id => i = j
  /\ hubResp.id # 0 => hubResp.code = 200 /\ hubResp.id \in Returned

\* a broadcast over two subscribers has visited both; the write to one failed
\* and the write to the other went through
C2_Witness ==
  \E t \in Tasks :
    /\ pc[t] = "iter"
    /\ todo[t] = {}
    /\ \E c, d \in snapshot[t] :
         c # d /\ Failed(c, cur[t]) /\ Delivered(d, cur[t])

\* the handler of connection c has returned
Removed(c) == pc[c] = "done"

C4_RemovedIsAbsent ==
  \A c \in Conns : Removed(c) => \A r \in DOMAIN transcriptWS : c \notin transcriptWS[r]

C4_RemoveAbsentIsNoOp ==
  \A c \in Conns, r \in RoomNames :
    c \notin Subs(r) => Unregister(transcriptWS, r, c) = transcriptWS

C4_NoWriteAfterRemoval ==
  \A c \in Conns : Removed(c) => wlog'[c] = wlog[c]

C5_NothingKeptForLater ==
  /\ \A t \in Tasks : pc[t] = "iter" /\ snapshot[t] = {} => todo[t] = {}
  /\ hubResp.id # 0 /\ hubResp.subs = {} =>
       /\ hubResp.code = 200
       /\ \A c \in Conns : ~Attempted(c, hubResp.id)
  /\ \A c \in Conns : \A i \in DOMAIN wlog[c] : wlog[c][i].id \notin before[c]

\* the event answered last went to a room without subscribers; a connection
\* that registered in that room afterwards has received a later event
C5_Witness ==
  /\ hubResp.id # 0
  /\ hubResp.subs = {}
  /\ hubResp.code = 200
  /\ \E c \in Conns :
       /\ wsRoom[c] = events[hubResp.id].room
       /\ hubResp.id \in before[c]
       /\ \E id \in 1..Len(events) : id > hubResp.id /\ Delivered(c, id)

\* C6: the events one sequential publisher (the Agent, which waits for each
\* answer, or the handler of one subscriber's connection) publishes to a room
\* are written to every subscriber in the order of the publish calls.
C6_PublishOrderKept ==
  \A c \in Conns : \A i, j \in DOMAIN wlog[c] :
    (i < j /\ events[wlog[c][i].id].src = events[wlog[c][j].id].src)
      => wlog[c][i].id < wlog[c][j].id

\* a subscriber has received two events of the Agent
C6_Witness ==
  \E c \in Conns : \E i, j \in DOMAIN wlog[c] :
    /\ i < j
    /\ wlog[c][i].ok /\ wlog[c][j].ok
    /\ events[wlog[c][i].id].src = Agent
    /\ events[wlog[c][j].id].src = Agent

C7_LockHeld ==
  /\ \A c \in Conns : pc[c] \in {"reg", "del"} <=> lockW = c
  /\ \A t \in Tasks : pc[t] = "iter" <=> t \in lockR
  /\ lockW # NoTask => lockR = {}

C7_WriteUnderLock ==
  transcriptWS' # transcriptWS =>
    /\ lockW \in Conns
    /\ pc[lockW] \in {"reg", "del"}
    /\ lockR = {}
    /\ \A r \in DOMAIN transcriptWS' :
         Subs(r) # transcriptWS'[r] => r = wsRoom[lockW]

\* C7: a handler registers or removes its connection only while it holds
\* transcriptLock exclusively (no reader, no other writer), a broadcast holds
\* the lock shared from before its range loop until after it, and the registry
\* changes in no step of a task that does not hold the lock exclusively.
C7_RegistryUnderLock ==
  /\ []C7_LockHeld
  /\ [][C7_WriteUnderLock]_vars

\* two broadcasts range over the same room at once, both holding the lock
\* shared, after its subscriber registered under the exclusive lock
C7_Witness ==
  \E t, u \in lockR :
    /\ t # u
    /\ snapshot[t] # {}
    /\ snapshot[t] = snapshot[u]
    /\ snapshot[t] = Subs(events[cur[t]].room)

(***************************************************************************)
(* Properties of the meetings table                                        *)
(***************************************************************************)
\* C3: get-or-create is idempotent per room. The table holds at most one row
\* per room name, and every call answered 200, whether it found the row or
\* went through CreateMeeting, alone or next to another call for the same
\* room, returns the id of that row (so any two calls return the same id).
C3_SameMeetingId ==
  /\ \A i, j \in DOMAIN meetings : meetings[i] = meetings[j] => i = j
  /\ meetResp.code = 200 => meetResp.id = GetMeetingByRoom(meetResp.room)

\* C19: a start-transcription that comes in after another for the same room
\* was answered 200 is answered 200 with the same meeting id; the room has one
\* meeting row and the Agent at most one session in it.
C19_RepeatedStartSameMeeting ==
  /\ \A i, j \in DOMAIN meetings : meetings[i] = meetings[j] => i = j
  /\ \A r \in RoomNames : sessions[r] <= 1
  /\ (meetResp.code = 200 /\ meetResp.prev # NoPrev) =>
       meetResp.id = meetResp.prev

\* the Agent had no session in the room and said so: answered 404
C20_NoSessionIs404 ==
  (endResp'.agent = "answers" /\ ~endResp'.hadSession) => endResp'.code = 404

\* the Agent accepted the leave: answered 200 "processing"
C20_AcceptedIsProcessing ==
  (endResp'.agent = "answers" /\ endResp'.hadSession) =>
    (endResp'.code = 200 /\ endResp'.status = "processing")

\* the step that answers writes no table
C20_WritesNothing ==
  (endResp' # endResp \/ \E r \in RoomNames : sessions'[r] < sessions[r]) =>
    /\ meetings' = meetings
    /\ lastInsertRowid' = lastInsertRowid
    /\ meeting_notes' = meeting_notes
    /\ email_subscriptions' = email_subscriptions

\* C20: end-transcription is answered 404 when the Agent has no session in the
\* room and 200 "processing" when the Agent accepts the leave; in both cases
\* the answer is given in the step of the Agent's reply, with no notes row
\* awaited and nothing written to the store.
C20_EndAnswersAtOnce ==
  [][C20_NoSessionIs404 /\ C20_AcceptedIsProcessing /\ C20_WritesNothing]_vars

\* an end-transcription was answered "processing" for a room that has a
\* meeting row and no notes
C20_Witness ==
  /\ endResp.code = 200
  /\ endResp.status = "processing"
  /\ GetMeetingByRoom(endResp.room) # 0
  /\ NotesOf(GetMeetingByRoom(endResp.room)) = {}
  /\ sessions[endResp.room] = 0

(***************************************************************************)
(* Properties of notes and e-mail subscriptions                            *)
(***************************************************************************)
\* C11: the notes getNotes returns for a room are those the saveNotes answered
\* last for that room was handed (markdown, model, token counts), however
\* close in time the saves were.
C11_GetReturnsLastSaved ==
  (storeResp.op = "getNotes" /\ storeResp.code = 200) =>
    storeResp.body = storeResp.latest

\* C12: getNotes answers 404 whenever the room has no meeting row or its
\* meeting has no notes row, and it can answer in every state, also while a
\* saveNotes for the room is under way.
C12_NotFoundWithoutNotes ==
  /\ (storeResp.op = "getNotes" /\ ~storeResp.hasRows) => storeResp.code = 404
  /\ \A r \in StoreRooms : \E i \in 0..MaxNotes : ENABLED getNotesHandler(r, i)

\* getNotes was answered 404 for a room that has a meeting row and no notes,
\* while a saveNotes for it is about to insert
C12_Witness ==
  /\ storeResp.op = "getNotes"
  /\ storeResp.code = 404
  /\ GetMeetingByRoom(storeResp.room) # 0
  /\ \E t \in StoreTasks :
       storeTask[t].pc = "insert" /\ storeTask[t].room = storeResp.room

C13_PersistedIsSuccess ==
  Len(meeting_notes') > Len(meeting_notes) =>
    /\ storeResp'.op = "save"
    /\ storeResp'.code = 200
    /\ storeResp'.body = meeting_notes'[Len(meeting_notes')].body

C13_WorkflowIsSilent ==
  (emailOutcome' # emailOutcome \/ (emailJobs' \subseteq emailJobs /\ emailJobs' # emailJobs)) =>
    /\ storeResp' = storeResp
    /\ meeting_notes' = meeting_notes

\* C13: every step that persists a notes row answers the saveNotes 200, and
\* no step of the notification goroutine, whatever its outcome, changes the
\* answer given or the stored notes.
C13_SaveIgnoresNotification ==
  [][C13_PersistedIsSuccess /\ C13_WorkflowIsSilent]_vars

\* a saveNotes was answered 200 and its notification then failed at the
\* webhook
C13_Witness ==
  /\ storeResp.op = "save"
  /\ storeResp.code = 200
  /\ emailOutcome \in {"postError", "non2xx"}
  /\ emailJobs = {}

\* C14: there is at most one subscription row per (meeting, email), and after
\* a subscribe is answered 200 the room's meeting has exactly one row for the
\* email, carrying the display name of that call.
C14_OneRowPerPair ==
  /\ \A r1, r2 \in email_subscriptions :
       (r1.meeting_id = r2.meeting_id /\ r1.email = r2.email) => r1 = r2
  /\ (storeResp.op = "subscribe" /\ storeResp.code = 200) =>
       SubsOf(GetMeetingByRoom(storeResp.room), storeResp.email) =
         {[meeting_id |-> GetMeetingByRoom(storeResp.room),
           email |-> storeResp.email, participant_name |-> storeResp.name]}

(***************************************************************************)
(* Properties of participant tokens                                        *)
(***************************************************************************)
\* C15: any two tokens issued for the same display name and the same room
\* carry different participant identities.
C15_DistinctIdentities ==
  \A i, j \in DOMAIN issued :
    (i # j /\ issued[i].name = issued[j].name /\ issued[i].room = issued[j].room)
      => issued[i].identity # issued[j].identity

(***************************************************************************)
(* Properties of host authentication                                       *)
(***************************************************************************)
\* a step of a host-only route: the handler ran only for a credential whose
\* signature verifies and whose expiry is not in the past
C16_RanOnlyIfValid ==
  (authResp'.op \in HostOps /\ authResp'.ran) =>
    (authResp'.sigOk /\ ~authResp'.expired)

\* an expired credential is answered 401 and the handler does not run
C16_ExpiredIs401 ==
  (authResp'.op \in HostOps /\ authResp'.expired) =>
    (authResp'.code = 401 /\ ~authResp'.ran)

\* a step that changes the scheduled meetings, the Room Service or the
\* handlers' answer belongs to a request that passed authRequired: it is the
\* step of the route, made for the user the credential was issued to, or the
\* continuation of a start that passed before
C16_ChangeOnlyBehindGate ==
  schedVars' # schedVars =>
    \/ \E t \in StartTasks :
         startTask[t].pc # "idle" /\ startTask'[t] # startTask[t]
    \/ /\ authResp'.op \in HostOps /\ authResp'.ran
       /\ authResp'.sigOk /\ ~authResp'.expired
       /\ resp' # resp =>
            (resp'.op = authResp'.op /\ resp'.user = authResp'.issuedFor)
       /\ \A t \in StartTasks :
            startTask'[t] # startTask[t] =>
              startTask'[t].user = authResp'.issuedFor

\* C16: no host-only route (me, create room, schedule, list, cancel, start)
\* runs its handler, changes state or calls the Room Service unless the
\* request's credential has a signature that verifies and an expiry that is
\* not in the past, and an expired credential is answered 401.
C16_HostOpsNeedValidCredential ==
  [][C16_RanOnlyIfValid /\ C16_ExpiredIs401 /\ C16_ChangeOnlyBehindGate]_vars

\* a credential login issued, used with success before (a meeting was
\* scheduled), has expired and is answered 401
C16_Witness ==
  /\ authResp.op \in HostOps
  /\ authResp.issuedFor # 0
  /\ authResp.expired
  /\ authResp.code = 401
  /\ scheduled_meetings # <<>>

\* the user of an email, 0 when there is none
UserOfEmail(email) ==
  IF \E u \in Users : users[u].email = email
    THEN CHOOSE u \in Users : users[u].email = email
    ELSE 0

\* a login whose body parsed and whose email or password is not right
FailedLogin(r) ==
  /\ r.op = "login"
  /\ r.reqEmail # ""
  /\ UserOfEmail(r.reqEmail) = 0 \/ r.reqPassword # AdminPassword

C17_LoginIssues ==
  (authResp'.op = "login" /\ UserOfEmail(authResp'.reqEmail) # 0
     /\ authResp'.reqPassword = AdminPassword) =>
    LET u == UserOfEmail(authResp'.reqEmail) IN
      /\ authResp'.code = 200
      /\ [token |-> authResp'.token, user |-> u] \in jwts'
      /\ authResp'.id = u
      /\ authResp'.email = users[u].email
      /\ authResp'.name = users[u].name

C17_FailedLoginIssuesNothing ==
  FailedLogin(authResp') =>
    (authResp'.code = 401 /\ authResp'.token = <<>> /\ jwts' = jwts)

C17_MeResolves ==
  (authResp'.op = "me" /\ authResp'.issuedFor # 0 /\ ~authResp'.expired) =>
    LET u == authResp'.issuedFor IN
      /\ authResp'.code = 200
      /\ authResp'.id = u
      /\ authResp'.email = users[u].email
      /\ authResp'.name = users[u].name

\* C17: a login with the right password answers a credential that GET
\* /api/auth/me, before the expiry, resolves to the id, email and name of the
\* user who logged in; a login with a wrong password or an unknown email is
\* answered 401 and issues no credential.
C17_LoginMeRoundTrip ==
  [][C17_LoginIssues /\ C17_FailedLoginIssuesNothing /\ C17_MeResolves]_vars

\* me was answered for the credential of the second user, after time passed
C17_Witness ==
  /\ authResp.op = "me"
  /\ authResp.code = 200
  /\ authResp.issuedFor = 2
  /\ authResp.name = "Burt"
  /\ authNow > 0

\* what the client sees of an answer
Visible(r) == <<r.code, r.body, r.token, r.id, r.email, r.name>>

\* C18: every failed login, whether the email is unknown or the password is
\* wrong, is answered with the same status 401 and the same body.
C18_FailedLoginsLookAlike ==
  FailedLogin(authResp) =>
    Visible(authResp) = <<401, "Invalid credentials", <<>>, 0, "", "">>

\* a login with a known email and a wrong password was answered
C18_Witness ==
  /\ FailedLogin(authResp)
  /\ UserOfEmail(authResp.reqEmail) # 0

(***************************************************************************)
(* Properties of recordings                                                *)
(***************************************************************************)
\* C21: at every moment at most one recording row per meeting has status
\* 'recording', also when two start-recording requests for the room are
\* handled at once.
C21_OneActiveRecording ==
  \A i, j \in DOMAIN recordings :
    (recordings[i].meeting_id = recordings[j].meeting_id
       /\ recordings[i].status = "recording"
       /\ recordings[j].status = "recording") => i = j

(***************************************************************************)
(* Properties of the notes poller                                          *)
(***************************************************************************)
\* C22: once end-transcription has answered "processing", the poller makes at
\* most 60 attempts, 5 seconds apart, and when it stops the page shows a
\* terminal status, completed or failed, whether the polls were answered 404
\* or threw.
C22_PollerEndsTerminal ==
  /\ fetches <= maxAttempts
  /\ pollDelay \in {0, 5000}
  /\ pollPc = "done" => transcriptionStatus \in {"completed", "failed"}

(***************************************************************************)
(* Properties of the notification webhook                                  *)
(***************************************************************************)
\* every call was made for a save that persisted, with a URL configured and
\* to at least one recipient, and no save was notified twice
C23_CallsAreJustified ==
  /\ \A i \in DOMAIN webhookCalls :
       /\ webhookCalls[i].id \in DOMAIN meeting_notes
       /\ meeting_notes[webhookCalls[i].id].body = webhookCalls[i].notes
       /\ lastSaved[webhookCalls[i].roomName] # ""
       /\ webhookCalls[i].url # ""
       /\ webhookCalls[i].recipients # {}
  /\ \A i, j \in DOMAIN webhookCalls :
       webhookCalls[i].id = webhookCalls[j].id => i = j

\* a call goes to the subscriptions the room has when it is made
C23_RecipientsAreCurrent ==
  webhookCalls' # webhookCalls =>
    /\ Len(webhookCalls') = Len(webhookCalls) + 1
    /\ SubSeq(webhookCalls', 1, Len(webhookCalls)) = webhookCalls
    /\ LET call == webhookCalls'[Len(webhookCalls')]
       IN  /\ call.recipients =
                {r \in email_subscriptions :
                   r.meeting_id = GetMeetingByRoom(call.roomName)}
           /\ \E job \in emailJobs :
                job.pc = "start" /\ job.id = call.id /\ job.room = call.roomName

\* C23: the webhook is called for a room only after a saveNotes for the room
\* persisted, only with a webhook URL configured and at least one
\* subscription of the room when the goroutine runs, at most once per
\* saveNotes, and with the room's subscriptions of that moment as recipients.
C23_WebhookOnlyForSavedNotes ==
  [][C23_RecipientsAreCurrent /\ C23_CallsAreJustified']_vars

\* the first save found nobody to notify or no URL; by the second save a
\* participant had subscribed, and the webhook was called for it
C23_Witness ==
  /\ Len(webhookCalls) = 1
  /\ webhookCalls[1].id = 2
  /\ webhookCalls[1].recipients # {}
  /\ emailJobs = {}
  /\ emailOutcome = "sent"

(***************************************************************************)
(* Properties of the calls to the Room Service and the AI service          *)
(***************************************************************************)
\* a start whose CreateRoom failed is answered 500 after that one call, and
\* the step changes no scheduled meeting and no room
C24_StartFailsOnce ==
  \A t \in StartTasks :
    (startTask[t].pc = "createRoom" /\ startTask'[t].pc = "idle") =>
      /\ startTask'[t] = IdleStart
      /\ resp'.op = "start" /\ resp'.id = startTask[t].id
      /\ resp'.code = 500
      /\ resp'.calls = 1
      /\ scheduled_meetings' = scheduled_meetings
      /\ lkRooms' = lkRooms

\* a start-transcription whose /join failed is answered 500 after that one call
C24_JoinFailsOnce ==
  (meetResp.agent = "fails" => meetResp.code = 500) /\ meetResp.calls <= 1

\* an end-transcription makes one call; an AI service that cannot be reached
\* or answers outside 2xx, the 404 of "no session" apart, is answered 500
C24_LeaveFailsOnce ==
  /\ endResp.calls <= 1
  /\ endResp.agent \in {"fails", "unreachable"} => endResp.code = 500

\* as stated first: every answer of the AI service outside 2xx, the 404
\* included, is answered 500
C24_LeaveEveryFailureIs500 ==
  (endResp.agent \in {"fails", "unreachable"}
     \/ (endResp.agent = "answers" /\ ~endResp.hadSession)) =>
    endResp.code >= 500

\* C24 (as stated first): start, start-transcription and end-transcription
\* answer 500 after one attempt whenever the Room Service or the AI service
\* fails or answers outside 2xx, and a failed start leaves the scheduled
\* meeting as it was.
C24_UpstreamFailureIs500 ==
  [][C24_StartFailsOnce /\ C24_JoinFailsOnce' /\ C24_LeaveFailsOnce'
       /\ C24_LeaveEveryFailureIs500']_vars

\* C24 (amended): the same, except that end-transcription passes the AI
\* service's 404 on as 404.
C24_UpstreamFailureIs500Or404 ==
  [][C24_StartFailsOnce /\ C24_JoinFailsOnce' /\ C24_LeaveFailsOnce']_vars

\* a start failed at the Room Service, the meeting stayed scheduled, and a
\* start of the same meeting is under way again
C24_Witness ==
  /\ resp.op = "start" /\ resp.code = 500 /\ resp.calls = 1
  /\ scheduled_meetings[resp.id].status = "scheduled"
  /\ \E t \in StartTasks :
       startTask[t].pc = "update" /\ startTask[t].id = resp.id
  /\ meetResp.agent = "fails"
  /\ endResp.agent = "fails"

(***************************************************************************)
(* Properties of the checks of request bodies                              *)
(***************************************************************************)
\* a token request that names no room or no participant is answered 400, and
\* no token is issued without a room or a participant name
C25_TokenNeedsRoomAndName ==
  /\ (tokenResp.code # 0 /\ (tokenResp.name = "" \/ tokenResp.room = ""))
       => tokenResp.code = 400
  /\ \A i \in DOMAIN issued : issued[i].name # "" /\ issued[i].room # ""

\* a step that answers 400 changes no table and issues nothing
C25_RejectedChangesNothing ==
  /\ (tokenResp' # tokenResp /\ tokenResp'.code = 400) => issued' = issued
  /\ (resp' # resp /\ resp'.code = 400) =>
       scheduled_meetings' = scheduled_meetings
  /\ (storeResp' # storeResp /\ storeResp'.code = 400) =>
       /\ email_subscriptions' = email_subscriptions
       /\ meetings' = meetings
       /\ storeTask' = storeTask

\* C25: a request with malformed or missing required fields (a token request
\* without room or participant name, a schedule request with a date that does
\* not parse, a subscription with an empty email, a body that does not parse)
\* is answered 400, changes no state and is issued no credential.
C25_MalformedIs400 ==
  [][C25_RejectedChangesNothing /\ C25_TokenNeedsRoomAndName']_vars

(***************************************************************************)
(* Properties of the lookups                                               *)
(***************************************************************************)
\* an operation on a room without meeting, or on an id without scheduled
\* meeting, was answered 404 (rows are never deleted: what is unknown now was
\* unknown when the request was answered)
C26_UnknownAnswered404 ==
  /\ (storeResp.op \in {"getNotes", "unsubscribe", "list"}
        /\ GetMeetingByRoom(storeResp.room) = 0) => storeResp.code = 404
  /\ (recResp.op \in {"stop", "status"} /\ ~recResp.known) => recResp.code = 404
  /\ (resp.op \in {"cancel", "start"} /\ resp.id \notin RowIds) => resp.code = 404
  /\ (resp.op = "join" /\ resp.id = 0) => resp.code = 404

\* a step that answers 404 changes no table and no room
C26_NotFoundChangesNothing ==
  /\ (storeResp' # storeResp /\ storeResp'.code = 404) =>
       UNCHANGED <<meetings, meeting_notes, email_subscriptions>>
  /\ (recResp' # recResp /\ recResp'.code = 404) =>
       UNCHANGED <<meetings, recordings, egressSeq, recJobs>>
  /\ (resp' # resp /\ resp'.code = 404) =>
       UNCHANGED <<scheduled_meetings, lkRooms>>

\* C26: every operation that names an unknown room, meeting or scheduled
\* meeting (get notes, unsubscribe-email, list of email subscriptions,
\* stop-recording, recording-status, join-info, cancel, start) is answered 404
\* and changes no state.
C26_UnknownIs404 ==
  [][C26_NotFoundChangesNothing /\ C26_UnknownAnswered404']_vars

(***************************************************************************)
(* Properties of the message the ingestion endpoint builds                 *)
(***************************************************************************)
\* C27: an event whose body does not parse is answered an error and nothing
\* is handed to the broadcast; every message handed to it parses as an
\* object whose speaker, text, is_final and timestamp are those of the event
\* that came in, whatever characters the fields hold.
C27_BroadcastIsTheEvent ==
  /\ wire.code = 400 => ~wire.published
  /\ wire.published =>
       /\ ParseJSON(wire.bytes).ok
       /\ ParseJSON(wire.bytes).obj =
            {<< <<"speaker">>, wire.msg.speaker >>,
             << <<"text">>, wire.msg.text >>,
             << <<"is_final">>, wire.msg.is_final >>,
             << <<"timestamp">>, wire.msg.timestamp >>}

(***************************************************************************)
(* Properties of the meetings table                                        *)
(***************************************************************************)
\* no two rows of meetings have the same room name
C28_OneRowPerRoom ==
  \A i, j \in DOMAIN meetings : meetings[i] = meetings[j] => i = j

\* a row, once there, keeps its id and its room name and is not deleted
C28_RowsStay ==
  \A i \in DOMAIN meetings : i \in DOMAIN meetings' /\ meetings'[i] = meetings[i]

\* C28: the meetings table holds at most one row per room name; a row that
\* exists keeps its id and its room name, and no operation deletes it.
C28_MeetingsRowsAreStable ==
  [][C28_RowsStay /\ C28_OneRowPerRoom']_vars

\* two requests for a room both found no meeting and both ran CreateMeeting:
\* the second took the ON CONFLICT branch; both rooms have their row
C28_Witness ==
  /\ Len(meetings) = 2
  /\ \E t, u \in MeetTasks :
       /\ t # u
       /\ meetTask[t].pc = "join" /\ meetTask[u].pc = "join"
       /\ meetTask[t].room = meetTask[u].room
       /\ meetTask[t].prev = NoPrev /\ meetTask[u].prev = NoPrev
       /\ meetTask[t].id # meetTask[u].id

(***************************************************************************)
(* Properties of the writes to a connection                                *)
(***************************************************************************)
\* C29: no two tasks are inside WriteMessage on the same connection at the
\* same time, also when two publishes to one room run at once (two ingestion
\* requests, or an ingestion request and a message a subscriber sent).
C29_OneWriterPerConn ==
  \A t, u \in Tasks :
    (t # u /\ writing[t] # 0 /\ writing[u] # 0) => writing[t] # writing[u]

(***************************************************************************)
(* Properties of the rooms of the relay hub                                *)
(***************************************************************************)
\* C30: an event is written only to connections registered under the room it
\* was published for, which for a message a subscriber sent is the room its
\* connection registered under, and the sender is among those its broadcast
\* ranges over; a connection of another room is never written the event.
C30_OnlyOwnRoom ==
  /\ \A c \in Conns : \A i \in DOMAIN wlog[c] :
       events[wlog[c][i].id].room = wsRoom[c]
  /\ \A id \in DOMAIN events :
       events[id].src # Agent => events[id].room = wsRoom[events[id].src]
  /\ \A t \in Tasks :
       pc[t] = "iter" =>
         /\ \A c \in todo[t] : wsRoom[c] = events[cur[t]].room
         /\ t \in Conns => t \in snapshot[t]

\* a subscriber's message has been written to the sender and its publish has
\* returned, while a subscriber of the other room, registered before the
\* message came, was written nothing
C30_Witness ==
  \E c, d \in Conns :
    /\ wsRoom[c] # wsRoom[d]
    /\ pc[c] = "read" /\ pc[d] = "read"
    /\ wlog[d] = <<>>
    /\ before[d] = {}
    /\ \E i \in DOMAIN wlog[c] :
         /\ events[wlog[c][i].id].src = c
         /\ wlog[c][i].id \in Returned

(***************************************************************************)
(* Properties of the relay hub when a peer stops reading                   *)
(***************************************************************************)
\* a connection of the room is stalled
StalledRoom(r) == \E d \in stalled : wsRoom[d] = r

\* C31: a subscriber whose write never completes does not stall the hub: the
\* other subscribers of that publish are still written the event, and a
\* subscribe, an unsubscribe and a publish for another room issued meanwhile
\* all complete in the end.
C31_StalledWriteHarmless ==
  /\ \A id \in EventIds, c \in Conns :
       (\E t \in Tasks : pc[t] = "iter" /\ cur[t] = id /\ c \in todo[t])
         ~> (Attempted(c, id) \/ c \in stalled)
  /\ \A c \in Conns :
       (pc[c] = "lock") ~> (pc[c] = "read" \/ StalledRoom(wsRoom[c]))
  /\ \A c \in Conns :
       (pc[c] = "defer") ~> (pc[c] = "done" \/ StalledRoom(wsRoom[c]))
  /\ \A t \in Tasks, id \in EventIds :
       (pc[t] = "bcast" /\ cur[t] = id)
         ~> (\/ id \in Returned
             \/ id \in DOMAIN events /\ StalledRoom(events[id].room))

(***************************************************************************)
(* Properties of the notes the meeting page shows                          *)
(***************************************************************************)
\* C32: the notes the poller presents as the completed result were persisted
\* after this client's end-transcription request; notes saved for the room
\* name before that request are never shown as the result.
C32_ResultSavedAfterEnd ==
  transcriptionStatus = "completed" => shownRow > endedAt

(***************************************************************************)
(* Properties of the transcript-stream component                           *)
(***************************************************************************)
\* the delays of the retries, in ms, by the retries already made
BackoffTable == <<1000, 2000, 4000, 8000, 16000>>

\* C33: after each connection close the component schedules one reconnect
\* with delay min(1000 * 2^n, 30000) ms, n being the consecutive retries
\* already made; it makes at most 5 consecutive retries, resets the count to
\* 0 on every successful open, and after 5 retries without an open it
\* schedules nothing more.
C33_ReconnectPolicy ==
  /\ retryCount <= 5
  /\ reconEv.kind = "open" => retryCount = 0
  /\ reconEv.kind = "close" =>
       reconEv.added = IF reconEv.n < 5 THEN {BackoffTable[reconEv.n + 1]} ELSE {}

\* C34: after the component unmounts or its room name changes no new
\* WebSocket is opened for the old room and no reconnect timer stays
\* pending; at any time the component has at most one open connection or
\* pending reconnect.
C34_NothingLeftBehind ==
  /\ \A t \in timers : mounted /\ t.room = roomNameProp
  /\ reconEv.kind = "timer" => mounted /\ reconEv.room = roomNameProp
  /\ Cardinality({s \in sockets : s.state = "open"}) + Cardinality(timers) <= 1

(***************************************************************************)
(* Properties of the auth context                                          *)
(***************************************************************************)
isAuthenticated == authUser # 0

\* C35: whenever isAuthenticated is true the token of the context is not
\* null, under any interleaving of login, logout and the completion of the
\* startup check; once logout has been called and every response in flight
\* has resolved, user and token are both null.
C35_AuthenticatedHasToken ==
  /\ isAuthenticated => authToken # NoJwt
  /\ (loggedOut /\ loginsInFlight = {} /\ checkPc # "inflight")
       => authUser = 0 /\ authToken = NoJwt

C37_BackgroundMatchesTrack ==
  (completed \in {"success", "failure", "timeout"} /\ applyPc = "idle")
    => /\ ~isApplying
       /\ currentBackground # "none" => trackProcessor # "none"

====
